---- MODULE Spec2Model ----
(***************************************************************************)
(* Verification model of the cluster enrichment pipeline of Dumpster-Permit *)
(* (RateLimiter, reverseGeocodeWithCache, DataFetcher.fetchData).          *)
(*                                                                         *)
(* JavaScript runs one macrotask at a time: everything between two         *)
(* suspension points (a network answer, a timer) is one atomic action,     *)
(* microtask continuations included.                                       *)
(***************************************************************************)
EXTENDS Integers, Sequences, FiniteSets, TLC

VARIABLES
  \* ---- RateLimiter instance (rateLimiter) ----
  queue,          \* RateLimiter.queue: tasks waiting, oldest first
  processing,     \* RateLimiter.processing
  lastCallTime,   \* RateLimiter.lastCallTime
  loops,          \* live invocations of process() that passed its guard
  started,        \* history: <<task, Date.now()>> of every dispatch, in order
  now,            \* Date.now()
  \* ---- the tasks handed to add() by arbitrary callers ----
  taskState,      \* "unsubmitted" | "queued" | "running" | "ok" | "failed"
  promise,        \* the promise add() returned: "none" | "pending" | "resolved" | "rejected"
  \* ---- DataFetcher (rate-limited version) and its module state ----
  geocodeCache,   \* const geocodeCache = new Map(): its entries [key, data, point]
  mounted,        \* the fetch effect is installed (moveend/zoomend handlers on)
  activeTab,      \* prop activeTab
  abortControllerRef, \* abortControllerRef.current: 0 (null) or the fetch owning it
  fetches,        \* one record per fetchData() invocation, in trigger order
  isLoading,      \* what setIsLoading published last
  locations,      \* what setLocations published last
  clusters,       \* what setClusters published last
  lookups,        \* one record per reverseGeocodeWithCache() call, in call order
  \* ---- /api/geocode route (Nominatim version), module state and requests ----
  serverCache,    \* the route's geocodeCache: entries [key, data, timestamp, point]
  rateLimitMap,   \* the route's rateLimitMap: entries [key, count, resetTime]
  inRoute,        \* requests whose handler awaits the provider
  responses,      \* answers of the route on their way to the browser
  \* ---- /api/geocode route (Gemini version) ----
  gemini,         \* the one request of the route: position in GET / fetchWithRetry
  \* ---- /api/locations and /api/clusters routes, and other clients' requests ----
  regionApi,      \* requests received, RPC calls awaited, the last request and answer
  \* ---- the geocode route's admissions as its clients see them ----
  admission,      \* the last request and its answer, and per client key the
                  \* admissions counted from the first one after a reset
  \* ---- MapWithClusters ----
  selectedLocation, \* useState selectedLocation: <<>> (null) or <<location>>
  selectedCluster   \* useState selectedCluster: <<>> (null) or <<cluster>>

limVars == <<queue, processing, lastCallTime, loops, started, now>>
taskVars == <<taskState, promise>>
fetchVars == <<geocodeCache, mounted, activeTab, abortControllerRef, fetches,
               isLoading, locations, clusters, lookups>>
routeVars == <<serverCache, rateLimitMap, inRoute, responses>>
sideVars == <<gemini, regionApi, admission, selectedLocation, selectedCluster>>
vars == <<limVars, taskVars, fetchVars, routeVars, sideVars>>

\* -------------------------------------------------------------------------
\* Bounds
\* -------------------------------------------------------------------------
MaxTasks == 3

\* -------------------------------------------------------------------------
\* RateLimiter
\* -------------------------------------------------------------------------
minInterval == 1100

\* The clock moves in steps of half the interval.
TickUnit == minInterval \div 2
\* Date.now() is far larger than minInterval when the page loads.
StartTime == 2 * minInterval

TaskIds == 1 .. MaxTasks

RemoveAt(s, i) == [k \in 1 .. Len(s) - 1 |-> IF k < i THEN s[k] ELSE s[k + 1]]

\* The limiter's fields as one value, so that several add() calls made by
\* one handler compose.
RL == [queue |-> queue, processing |-> processing,
       lastCallTime |-> lastCallTime, loops |-> loops, started |-> started]

SetRL(L) ==
  /\ queue' = L.queue
  /\ processing' = L.processing
  /\ lastCallTime' = L.lastCallTime
  /\ loops' = L.loops
  /\ started' = L.started

RLInit == [queue |-> <<>>, processing |-> FALSE, lastCallTime |-> 0,
           loops |-> <<>>, started |-> <<>>]

\* Mutant: the guard without the processing flag.
ProcessReturnsEarlyNoFlag(L) == Len(L.queue) = 0

\* process(): `if (this.processing || this.queue.length === 0) return;`
ProcessReturnsEarly(L) == L.processing \/ Len(L.queue) = 0

\* Mutant: the comparison reversed.
TooSoonReversed(timeSinceLastCall) == timeSinceLastCall > minInterval

\* `if (timeSinceLastCall < this.minInterval)`
TooSoon(timeSinceLastCall) == timeSinceLastCall < minInterval

\* the delay handed to setTimeout
SleepDelay(timeSinceLastCall) == minInterval - timeSinceLastCall

\* Mutant: pop() instead of shift().
ShiftTaskLast(q) == q[Len(q)]

\* `this.queue.shift()`: the task taken, and what is left
ShiftTask(q) == Head(q)
ShiftRest(q) == Tail(q)

\* Mutant: the wrapper without its catch, so that fn's error reaches process().
WrapperRethrows(outcome) ==
  IF outcome = "failed" THEN "rejected" ELSE "fulfilled"

\* The wrapper pushed by add(): try { resolve(await fn()) } catch { reject }.
\* Its own promise is fulfilled whatever fn did.
WrapperSettles(outcome) ==
  IF outcome = "failed" THEN "fulfilled" ELSE "fulfilled"

\* Lines 127-131: shift, stamp lastCallTime, start the task and await it.
RLDispatch(L, i, t0) ==
  LET fn == ShiftTask(L.queue) IN
  [L EXCEPT !.queue = ShiftRest(@),
            !.lastCallTime = t0,
            !.loops[i] = [pc |-> "awaiting", task |-> fn, wakeAt |-> 0],
            !.started = Append(@, <<fn, t0>>)]

\* Mutant: process() returning without lowering its flag.
LoopExitKeepsFlag(L, i) == [L EXCEPT !.loops = RemoveAt(@, i)]

\* Line 134, after the `while` found the queue empty: `this.processing = false`
\* and process() returns.
LoopExit(L, i) == [L EXCEPT !.processing = FALSE, !.loops = RemoveAt(@, i)]

\* The loop of process() from its `while` test to its next suspension.
RLLoopTop(L, i, t0) ==
  IF Len(L.queue) = 0
  THEN LoopExit(L, i)
  ELSE IF TooSoon(t0 - L.lastCallTime)
       THEN [L EXCEPT !.loops[i] =
               [pc |-> "sleeping", task |-> 0,
                wakeAt |-> t0 + SleepDelay(t0 - L.lastCallTime)]]
       ELSE RLDispatch(L, i, t0)

\* The timer of loop i fired: shift (nothing when the queue is empty).
RLWake(L, i, t0) ==
  IF Len(L.queue) = 0 THEN RLLoopTop(L, i, t0) ELSE RLDispatch(L, i, t0)

\* `await fn()` of loop i returned (or threw, were the wrapper to reject).
RLTaskDone(L, i, outcome, t0) ==
  IF WrapperSettles(outcome) = "fulfilled"
  THEN RLLoopTop(L, i, t0)
  ELSE [L EXCEPT !.loops = RemoveAt(@, i)]

RLProcess(L, t0) ==
  IF ProcessReturnsEarly(L)
  THEN L
  ELSE RLLoopTop([L EXCEPT !.processing = TRUE,
                           !.loops = Append(@, [pc |-> "new", task |-> 0, wakeAt |-> 0])],
                 Len(L.loops) + 1, t0)

\* add(fn): push the wrapper, call process().
RLAdd(L, t, t0) == RLProcess([L EXCEPT !.queue = Append(@, t)], t0)

\* Tasks the limiter has started and that have not finished.
Executing(L) == {L.loops[i].task : i \in {k \in 1 .. Len(L.loops) : L.loops[k].pc = "awaiting"}}

\* Time passes. The clock is followed up to `horizon` past the last dispatch:
\* the limiter cannot tell later instants apart.
TickBy(d, horizon) ==
  /\ now + d <= lastCallTime + horizon
  /\ now' = now + d
  /\ UNCHANGED <<sideVars, routeVars, queue, processing, lastCallTime, loops, started, taskVars, fetchVars>>

\* Tasks dispatched by a step that took the limiter from L to L2.
NewlyStarted(L, L2) ==
  {L2.started[k][1] : k \in Len(L.started) + 1 .. Len(L2.started)}

\* -------------------------------------------------------------------------
\* Points, cache keys, geocode results
\* -------------------------------------------------------------------------
\* Coordinates are decimal degrees held in units of 0.00001 degree.
\* Number.prototype.toFixed(4): the sign, then the magnitude rounded to
\* 4 decimals (a tie goes to the larger magnitude), as integer part and
\* 4-digit fraction. A negative number that rounds to zero keeps its sign.
\* The points used below have no fifth decimal of 5, where the binary value
\* of the double decides the direction.
ToFixed4(x) ==
  LET mag == IF x < 0 THEN 0 - x ELSE x
      n == (mag + 5) \div 10
  IN <<IF x < 0 THEN "-" ELSE "", n \div 10000, n % 10000>>

\* `${lat.toFixed(4)},${lng.toFixed(4)}`
CacheKey(lat, lng) == <<ToFixed4(lat), ToFixed4(lng)>>

Pt(lat, lng) == [lat |-> lat, lng |-> lng]

\* Two points in Dallas that differ and round to (32.7766, -96.7970), one up
\* and one down in both coordinates, and two points in Greenwich, 0.00001
\* degree east and west of the prime meridian, that round to (51.4778, 0.0000).
Points ==
  {Pt(3277656, -9679704), Pt(3277664, -9679696), Pt(5147780, 1), Pt(5147780, -1)}

\* What /api/geocode answers with; "" is an absent field.
GeoData ==
  {[neighborhood |-> "Downtown", city |-> "Dallas", county |-> "Dallas County",
    state |-> "Texas", postal_code |-> "75201"],
   [neighborhood |-> "", city |-> "Plano", county |-> "",
    state |-> "Texas", postal_code |-> ""]}

NoData == [neighborhood |-> "", city |-> "", county |-> "", state |-> "",
           postal_code |-> ""]

\* Mutant: has() that never finds the key.
CacheHasNever(cache, key) == FALSE

\* geocodeCache.has(cacheKey)
CacheHas(cache, key) == \E e \in cache : e.key = key

\* geocodeCache.get(cacheKey)
CacheGet(cache, key) == (CHOOSE e \in cache : e.key = key).data

\* Mutant: the result is returned without being stored.
CacheSetSkipped(cache, key, data, point) == cache

\* geocodeCache.set(cacheKey, result); `point` records whose lookup stored it.
CacheSet(cache, key, data, point) ==
  {e \in cache : e.key # key} \cup {[key |-> key, data |-> data, point |-> point]}

\* The code gives two points the same key.
SameKey4(p, q) == CacheKey(p.lat, p.lng) = CacheKey(q.lat, q.lng)

\* The results the cache holds under the key of p.
StoredFor(cache, p) == {e.data : e \in {x \in cache : SameKey4(x.point, p)}}

\* A coordinate rounded to 4 decimals, as a number of 0.0001 degree (half
\* away from zero).
Round4(x) == IF x < 0 THEN 0 - ((5 - x) \div 10) ELSE (x + 5) \div 10

\* The coordinates of two points round to the same 4 decimals.
SameRounded(p, q) == Round4(p.lat) = Round4(q.lat) /\ Round4(p.lng) = Round4(q.lng)

\* The results the cache holds for points that round as p does.
StoredNear(cache, p) == {e.data : e \in {x \in cache : SameRounded(x.point, p)}}

\* The Gemini route before its request: `i` is fetchWithRetry's loop index,
\* `statuses` the provider's answers so far, `waits` the delays slept so far,
\* `outcome` what fetchWithRetry came to ("returned" the response with status
\* `returned`, "rejected" with the fetch, "thrown" after the loop), `response`
\* the status of the route's answer.
GeminiIdle ==
  [pc |-> "idle", i |-> 0, statuses |-> <<>>, waits |-> <<>>, wakeAt |-> 0,
   outcome |-> "none", returned |-> 0, response |-> 0]

\* The region routes before any request.
RegionIdle ==
  [count |-> 0, calls |-> {},
   request |-> [route |-> "none", query |-> <<>>],
   answer |-> [route |-> "none", query |-> <<>>, status |-> 0]]

\* The route modules as loaded: both maps empty, no request.
\* No request seen yet by any client of the geocode route.
AdmissionIdle ==
  [last |-> [key |-> "", at |-> 0, status |-> 0, body |-> NoData], windows |-> {}]

RouteInit ==
  /\ serverCache = {}
  /\ rateLimitMap = {}
  /\ inRoute = {}
  /\ responses = {}
  /\ gemini = GeminiIdle
  /\ regionApi = RegionIdle
  /\ admission = AdmissionIdle
  /\ selectedLocation = <<>>
  /\ selectedCluster = <<>>

\* The state of the DataFetcher module before the component mounts.
FetcherInit ==
  /\ geocodeCache = {}
  /\ mounted = FALSE
  /\ activeTab = "locations"
  /\ abortControllerRef = 0
  /\ fetches = <<>>
  /\ isLoading = TRUE
  /\ locations = <<>>
  /\ clusters = <<>>
  /\ lookups = <<>>

\* -------------------------------------------------------------------------
\* SpecLimiter: the RateLimiter under arbitrary callers of add()
\* -------------------------------------------------------------------------
\* The clock in steps of half an interval, up to two intervals past the last
\* dispatch.
Tick == TickBy(TickUnit, 2 * minInterval)

InitLimiter ==
  /\ queue = RLInit.queue
  /\ processing = RLInit.processing
  /\ lastCallTime = RLInit.lastCallTime
  /\ loops = RLInit.loops
  /\ started = RLInit.started
  /\ now = StartTime
  /\ taskState = [t \in TaskIds |-> "unsubmitted"]
  /\ promise = [t \in TaskIds |-> "none"]
  /\ FetcherInit
  /\ RouteInit

\* A caller calls add(fn); tasks are numbered in submission order.
Add(t) ==
  /\ taskState[t] = "unsubmitted"
  /\ \A u \in TaskIds : u < t => taskState[u] # "unsubmitted"
  /\ LET L2 == RLAdd(RL, t, now) IN
       /\ SetRL(L2)
       /\ taskState' = [taskState EXCEPT
                          ![t] = IF t \in NewlyStarted(RL, L2) THEN "running" ELSE "queued"]
  /\ promise' = [promise EXCEPT ![t] = "pending"]
  /\ UNCHANGED <<sideVars, routeVars, now, fetchVars>>

\* The setTimeout of a sleeping loop fires, at its deadline or later.
Wake(i) ==
  /\ i \in 1 .. Len(loops)
  /\ loops[i].pc = "sleeping"
  /\ now >= loops[i].wakeAt
  /\ LET L2 == RLWake(RL, i, now) IN
       /\ SetRL(L2)
       /\ taskState' = [u \in TaskIds |->
                          IF u \in NewlyStarted(RL, L2) THEN "running" ELSE taskState[u]]
  /\ UNCHANGED <<sideVars, routeVars, now, promise, fetchVars>>

\* The running task of loop i settles; the wrapper settles add()'s promise
\* and the loop goes on in the same macrotask.
TaskFinish(i, outcome) ==
  /\ i \in 1 .. Len(loops)
  /\ loops[i].pc = "awaiting"
  /\ LET t == loops[i].task
         L2 == RLTaskDone(RL, i, outcome, now) IN
       /\ SetRL(L2)
       /\ taskState' = [u \in TaskIds |->
                          IF u = t THEN outcome
                          ELSE IF u \in NewlyStarted(RL, L2) THEN "running"
                          ELSE taskState[u]]
       /\ promise' = [promise EXCEPT
                        ![t] = IF outcome = "ok" THEN "resolved" ELSE "rejected"]
  /\ UNCHANGED <<sideVars, routeVars, now, fetchVars>>

NextLimiter ==
  \/ \E t \in TaskIds : Add(t)
  \/ \E i \in 1 .. MaxTasks : Wake(i)
  \/ \E i \in 1 .. MaxTasks : TaskFinish(i, "ok")
  \/ \E i \in 1 .. MaxTasks : TaskFinish(i, "failed")
  \/ Tick

SpecLimiter == InitLimiter /\ [][NextLimiter]_vars

\* The scheduling the event loop guarantees: timers fire, tasks terminate,
\* the clock advances.
FairLimiter ==
  /\ SpecLimiter
  /\ WF_vars(Tick)
  /\ WF_vars(\E i \in 1 .. MaxTasks : Wake(i))
  /\ WF_vars(\E i \in 1 .. MaxTasks : TaskFinish(i, "ok") \/ TaskFinish(i, "failed"))

\* -------------------------------------------------------------------------
\* DataFetcher (rate-limited version): fetchData and its callbacks
\* -------------------------------------------------------------------------
MaxFetches == 2
MaxLookups == 3

\* The identity keys the clusters RPC hands out, in the order of a response:
\* the same cluster_id under two job types.
ClusterKeys ==
  <<[job_type |-> "Residential Roofing", cluster_id |-> 1],
    [job_type |-> "Demolition", cluster_id |-> 1]>>

\* The centroids the clusters RPC answers with: two points with different keys.
CenterPoints == {Pt(3277656, -9679704), Pt(3277666, -9679706)}

\* A raw cluster of the response of fetch f; `gen` records the fetch cycle
\* whose response carried it.
RawCluster(k, p, f) ==
  [job_type |-> ClusterKeys[k].job_type, cluster_id |-> ClusterKeys[k].cluster_id,
   center_lat |-> p.lat, center_lng |-> p.lng, gen |-> f, location_coords |-> <<>>]

\* The raw cluster with the sample points `coords` as its location_coords.
WithCoords(c, coords) == [c EXCEPT !.location_coords = coords]

\* The sample points the clusters RPC lists for a cluster.
ClusterCoords == <<Pt(3277650, -9679700), Pt(3277662, -9679708)>>

\* The responses of /api/clusters to fetch f: no cluster, one (with or without
\* location_coords), or two with distinct identity keys; any centroids, also
\* the same one twice.
ClusterResponses(f) ==
  {<<>>}
    \cup {<<RawCluster(1, p, f)>> : p \in CenterPoints}
    \cup {<<WithCoords(RawCluster(1, Pt(3277656, -9679704), f), ClusterCoords)>>}
    \cup {<<RawCluster(1, p, f), RawCluster(2, q, f)>> : p \in CenterPoints, q \in CenterPoints}

\* The responses of /api/locations to fetch f.
LocationResponses(f) == {<<>>, <<[id |-> 1, gen |-> f]>>}

Pending == <<"Loading location...">>

\* Step 1: basicClusters.
BasicCluster(c) ==
  [job_type |-> c.job_type, cluster_id |-> c.cluster_id,
   center_lat |-> c.center_lat, center_lng |-> c.center_lng, gen |-> c.gen,
   location_coords |-> c.location_coords,
   area_name |-> Pending, neighborhoods |-> <<>>, cities |-> <<>>,
   counties |-> <<>>, postal_codes |-> <<>>, state |-> ""]

\* `data.x ? [data.x] : []`
Facet(v) == IF v # "" THEN <<v>> ELSE <<>>

\* The friendly area name of the streaming callback.
AreaName(neighborhoods, cities) ==
  IF Len(neighborhoods) > 0
  THEN IF Len(cities) > 0
       THEN <<neighborhoods[1], " (", cities[1], ")">>
       ELSE <<neighborhoods[1]>>
  ELSE IF Len(cities) > 0 THEN <<cities[1]>> ELSE <<"Unknown Area">>

\* enhancedCluster: the raw cluster of the fetch that asked, with the facets
\* of one geocode result.
EnhancedCluster(c, data) ==
  [job_type |-> c.job_type, cluster_id |-> c.cluster_id,
   center_lat |-> c.center_lat, center_lng |-> c.center_lng, gen |-> c.gen,
   location_coords |-> c.location_coords,
   area_name |-> AreaName(Facet(data.neighborhood), Facet(data.city)),
   neighborhoods |-> Facet(data.neighborhood), cities |-> Facet(data.city),
   counties |-> Facet(data.county), postal_codes |-> Facet(data.postal_code),
   state |-> data.state]

\* prev.findIndex(c => c.job_type === jobType && c.cluster_id === clusterId);
\* 0 stands for -1.
FindIndex(prev, jobType, clusterId) ==
  LET hits == {i \in 1 .. Len(prev) :
                 prev[i].job_type = jobType /\ prev[i].cluster_id = clusterId}
  IN IF hits = {} THEN 0 ELSE CHOOSE i \in hits : \A j \in hits : i <= j

\* Mutant: an updater that appends the enriched cluster when none has its key.
StreamUpdateAppends(prev, c, data, gen) ==
  LET index == FindIndex(prev, c.job_type, c.cluster_id) IN
  IF index = 0
  THEN Append(prev, EnhancedCluster(c, data))
  ELSE [prev EXCEPT ![index] = EnhancedCluster(c, data)]

\* The updater handed to setClusters by the streaming callback of a lookup
\* made for raw cluster c by fetch cycle `gen`.
StreamUpdate(prev, c, data, gen) ==
  LET index == FindIndex(prev, c.job_type, c.cluster_id) IN
  IF index = 0 THEN prev ELSE [prev EXCEPT ![index] = EnhancedCluster(c, data)]

\* What the browser's fetch of /api/geocode can come to: the fetch rejects, the
\* response has a status (200 with a JSON body unless `kind` says otherwise),
\* or the body is not JSON.
Answer(kind, status) == [kind |-> kind, status |-> status]
NoAnswer == Answer("none", 0)
OkAnswer == Answer("status", 200)
FailedAnswers ==
  {Answer("network error", 0), Answer("status", 429), Answer("status", 500),
   Answer("malformed body", 200)}

\* The task given to the limiter: fetch rejects on a network error,
\* `if (!response.ok) throw`, response.json() rejects on a malformed body.
TaskOutcome(answer) ==
  IF answer.kind = "network error" THEN "failed"
  ELSE IF ~(answer.status >= 200 /\ answer.status <= 299) THEN "failed"
  ELSE IF answer.kind = "malformed body" THEN "failed"
  ELSE "ok"

\* add()'s promise, settled by the wrapper: resolve(result) or reject(error).
AddSettles(outcome) == IF outcome = "ok" THEN "resolved" ELSE "rejected"

\* Mutant: reverseGeocodeWithCache without its catch.
CallSettlesNoCatch(added) == IF added = "resolved" THEN "ok" ELSE "rejected"

\* How reverseGeocodeWithCache settles after `await rateLimiter.add(...)`:
\* "ok" returns the result, "failed" is the catch's `return null`.
CallSettles(added) == IF added = "resolved" THEN "ok" ELSE "failed"

\* reverseGeocodeWithCache(c.center_lat, c.center_lng) up to its first
\* await, on the limiter L and the calls made so far: a hit returns the
\* cached value, a miss adds a task to the limiter. `stored` records what the
\* cache held for the point's 4-decimal key when the call was made.
GeocodeCall(L, lks, c, t0) ==
  LET cacheKey == CacheKey(c.center_lat, c.center_lng)
      hit == CacheHas(geocodeCache, cacheKey)
      call == [cluster |-> c,
               status |-> IF hit THEN "hit" ELSE "pending",
               result |-> IF hit THEN CacheGet(geocodeCache, cacheKey) ELSE NoData,
               stored |-> StoredFor(geocodeCache, Pt(c.center_lat, c.center_lng)),
               near |-> StoredNear(geocodeCache, Pt(c.center_lat, c.center_lng)),
               answer |-> NoAnswer]
  IN [L |-> IF hit THEN L ELSE RLAdd(L, Len(lks) + 1, t0),
      lookups |-> Append(lks, call)]

\* geocodingPromises: the call is made for raw[k], raw[k+1], ... in turn. The
\* cache does not change while the calls are made. `near` records what the
\* cache held for points that round to the same 4 decimals.
RECURSIVE GeocodeAll(_, _, _, _, _)
GeocodeAll(raw, k, L, lks, t0) ==
  IF k > Len(raw)
  THEN [L |-> L, lookups |-> lks]
  ELSE LET r == GeocodeCall(L, lks, raw[k], t0)
       IN GeocodeAll(raw, k + 1, r.L, r.lookups, t0)

\* The streaming callbacks of the calls lks[k], lks[k+1], ... that were cache
\* hits run as microtasks, in call order.
RECURSIVE StreamHits(_, _, _)
StreamHits(prev, lks, k) ==
  IF k > Len(lks)
  THEN prev
  ELSE StreamHits(IF lks[k].status = "hit"
                  THEN StreamUpdate(prev, lks[k].cluster, lks[k].result, lks[k].cluster.gen)
                  ELSE prev,
                  lks, k + 1)

\* Mutant: fetchData without the abort of the previous controller.
AbortCurrentNever(fs, ref) == fs

\* abortControllerRef.current.abort(): an in-flight region query rejects with
\* AbortError and fetchData returns from its catch; a settled one is untouched.
AbortCurrent(fs, ref) ==
  IF ref # 0 /\ fs[ref].status = "inflight"
  THEN [fs EXCEPT ![ref].status = "aborted"]
  ELSE fs

\* fetchData() up to its await of the region query.
StartFetch(tab) ==
  /\ Len(fetches) < MaxFetches
  /\ fetches' = Append(AbortCurrent(fetches, abortControllerRef),
                       [tab |-> tab, status |-> "inflight"])
  /\ abortControllerRef' = Len(fetches) + 1
  /\ isLoading' = TRUE

\* The effect runs for the first time: fetchData(), handlers installed.
Mount ==
  /\ ~mounted
  /\ fetches = <<>>
  /\ mounted' = TRUE
  /\ StartFetch(activeTab)
  /\ UNCHANGED <<sideVars, routeVars, limVars, taskVars, geocodeCache, activeTab, locations, clusters, lookups>>

\* moveend or zoomend.
MapEvent ==
  /\ mounted
  /\ StartFetch(activeTab)
  /\ UNCHANGED <<sideVars, routeVars, limVars, taskVars, geocodeCache, mounted, activeTab, locations,
                 clusters, lookups>>

\* activeTab or jobTypeFilter changes: the effect's cleanup (handlers off,
\* abort) and the new effect (fetchData with the new props) run in one commit.
PropsChange(tab) ==
  /\ mounted
  /\ activeTab' = tab
  /\ StartFetch(tab)
  /\ UNCHANGED <<sideVars, routeVars, limVars, taskVars, geocodeCache, mounted, locations, clusters, lookups>>

\* /api/locations answers fetch f.
LocationsResponse(f, data) ==
  /\ f \in 1 .. Len(fetches)
  /\ fetches[f].status = "inflight"
  /\ fetches[f].tab = "locations"
  /\ fetches' = [fetches EXCEPT ![f].status = "done"]
  /\ locations' = data
  /\ clusters' = <<>>
  /\ isLoading' = FALSE
  /\ UNCHANGED <<sideVars, routeVars, limVars, taskVars, geocodeCache, mounted, activeTab,
                 abortControllerRef, lookups>>

\* /api/clusters answers fetch f: placeholders, then one geocode call per
\* cluster, then the callbacks of the cache hits.
ClustersResponse(f, raw) ==
  /\ f \in 1 .. Len(fetches)
  /\ fetches[f].status = "inflight"
  /\ fetches[f].tab = "clusters"
  /\ Len(lookups) + Len(raw) <= MaxLookups
  /\ fetches' = [fetches EXCEPT ![f].status = "done"]
  /\ isLoading' = FALSE
  /\ LET basicClusters == [i \in 1 .. Len(raw) |-> BasicCluster(raw[i])]
         r == GeocodeAll(raw, 1, RL, lookups, now)
     IN /\ SetRL(r.L)
        /\ lookups' = r.lookups
        /\ clusters' = StreamHits(basicClusters, r.lookups, Len(lookups) + 1)
  /\ UNCHANGED <<sideVars, routeVars, now, taskVars, geocodeCache, mounted, activeTab,
                 abortControllerRef, locations>>

\* The region query of fetch f fails (HTTP error or network failure): the
\* catch logs it.
RegionError(f) ==
  /\ f \in 1 .. Len(fetches)
  /\ fetches[f].status = "inflight"
  /\ fetches' = [fetches EXCEPT ![f].status = "error"]
  /\ UNCHANGED <<sideVars, routeVars, limVars, taskVars, geocodeCache, mounted, activeTab,
                 abortControllerRef, isLoading, locations, clusters, lookups>>

\* The fetch of the task that loop i awaits is answered with OK and `data`:
\* the result is cached under the point's key, add()'s promise resolves, the
\* streaming callback of the call runs and the limiter's loop goes on.
LookupResolved(i, data) ==
  /\ i \in 1 .. Len(loops)
  /\ loops[i].pc = "awaiting"
  /\ LET t == loops[i].task
         c == lookups[t].cluster
     IN /\ geocodeCache' = CacheSet(geocodeCache, CacheKey(c.center_lat, c.center_lng),
                                    data, Pt(c.center_lat, c.center_lng))
        /\ lookups' = [lookups EXCEPT
                          ![t].status = CallSettles(AddSettles(TaskOutcome(OkAnswer))),
                          ![t].result = data, ![t].answer = OkAnswer]
        /\ clusters' = StreamUpdate(clusters, c, data, c.gen)
  /\ SetRL(RLTaskDone(RL, i, "ok", now))
  /\ UNCHANGED <<sideVars, now, taskVars, mounted, activeTab, abortControllerRef, fetches,
                 isLoading, locations>>

\* Mutant: the catch storing an empty result under the key.
CacheAfterFailureStoresNull(cache, c) ==
  CacheSet(cache, CacheKey(c.center_lat, c.center_lng), NoData,
           Pt(c.center_lat, c.center_lng))

\* The throw of `!response.ok` (or of fetch) leaves the try block before
\* geocodeCache.set; the catch logs and returns null.
CacheAfterFailure(cache, c) == cache

\* The lookup that loop i awaits fails (network error or non-OK status):
\* add()'s promise rejects, reverseGeocodeWithCache returns null and the
\* callback ignores it.
LookupFailed(i, answer) ==
  /\ i \in 1 .. Len(loops)
  /\ loops[i].pc = "awaiting"
  /\ TaskOutcome(answer) = "failed"
  /\ lookups' = [lookups EXCEPT
                    ![loops[i].task].status = CallSettles(AddSettles(TaskOutcome(answer))),
                    ![loops[i].task].answer = answer]
  /\ geocodeCache' = CacheAfterFailure(geocodeCache, lookups[loops[i].task].cluster)
  /\ SetRL(RLTaskDone(RL, i, "failed", now))
  /\ UNCHANGED <<sideVars, now, taskVars, mounted, activeTab, abortControllerRef,
                 fetches, isLoading, locations, clusters>>

\* /api/geocode as the fetcher sees it: any answer, at any time.
GeocodeOk(i, data) == LookupResolved(i, data) /\ UNCHANGED routeVars

GeocodeFail(i, answer) == LookupFailed(i, answer) /\ UNCHANGED routeVars

\* The timer of the limiter's loop fires.
WakeLoop(i) ==
  /\ i \in 1 .. Len(loops)
  /\ loops[i].pc = "sleeping"
  /\ now >= loops[i].wakeAt
  /\ SetRL(RLWake(RL, i, now))
  /\ UNCHANGED <<sideVars, routeVars, now, taskVars, fetchVars>>

\* The clock in steps of one interval, up to one interval past the last
\* dispatch.
TickInterval == TickBy(minInterval, minInterval)

\* The parent passes either tab as activeTab.
InitFetcher ==
  /\ queue = RLInit.queue
  /\ processing = RLInit.processing
  /\ lastCallTime = RLInit.lastCallTime
  /\ loops = RLInit.loops
  /\ started = RLInit.started
  /\ now = StartTime
  /\ taskState = [t \in TaskIds |-> "unsubmitted"]
  /\ promise = [t \in TaskIds |-> "none"]
  /\ geocodeCache = {}
  /\ mounted = FALSE
  /\ activeTab \in {"locations", "clusters"}
  /\ abortControllerRef = 0
  /\ fetches = <<>>
  /\ isLoading = TRUE
  /\ locations = <<>>
  /\ clusters = <<>>
  /\ lookups = <<>>
  /\ RouteInit

NextFetcher ==
  \/ Mount
  \/ MapEvent
  \/ \E tab \in {"locations", "clusters"} : PropsChange(tab)
  \/ \E f \in 1 .. MaxFetches : \E data \in LocationResponses(f) : LocationsResponse(f, data)
  \/ \E f \in 1 .. MaxFetches : \E raw \in ClusterResponses(f) : ClustersResponse(f, raw)
  \/ \E f \in 1 .. MaxFetches : RegionError(f)
  \/ \E i \in 1 .. MaxLookups : \E data \in GeoData : GeocodeOk(i, data)
  \/ \E i \in 1 .. MaxLookups : GeocodeFail(i, Answer("status", 500))
  \/ \E i \in 1 .. MaxLookups : WakeLoop(i)
  \/ TickInterval

SpecFetcher == InitFetcher /\ [][NextFetcher]_vars

\* ---------------------------------------------------------------------------
\* The DataFetcher of components/maps/DataFetcher.tsx: every lookup at once
\* through reverseGeocode, one publication after Promise.all
\* ---------------------------------------------------------------------------
MaxSamplePoints == 10

\* Fetch cycles of this component.
MaxBatchFetches == 2

\* Results of /api/geocode with three neighborhoods of one city and two cities
\* without a neighborhood.
SampleData ==
  {[neighborhood |-> "Downtown", city |-> "Dallas", county |-> "Dallas County",
    state |-> "Texas", postal_code |-> "75201"],
   [neighborhood |-> "Midtown", city |-> "Dallas", county |-> "Dallas County",
    state |-> "Texas", postal_code |-> ""],
   [neighborhood |-> "Uptown", city |-> "Dallas", county |-> "",
    state |-> "Texas", postal_code |-> "75204"],
   [neighborhood |-> "", city |-> "Plano", county |-> "Collin County",
    state |-> "Texas", postal_code |-> ""],
   [neighborhood |-> "", city |-> "Irving", county |-> "",
    state |-> "", postal_code |-> ""],
   [neighborhood |-> "Oak Lawn", city |-> "", county |-> "",
    state |-> "", postal_code |-> ""]}

\* The sample points of a cluster, in the order of location_coords.
SamplePoints == <<Pt(3277656, -9679704), Pt(3278010, -9680020), Pt(3279130, -9681240)>>

\* The responses of /api/clusters to fetch f: no cluster; one cluster without
\* location_coords, or with one, two or three sample points; two clusters
\* with distinct identity keys, the first with two sample points.
BatchResponses(f) ==
  {<<>>}
    \cup {<<WithCoords(RawCluster(1, SamplePoints[1], f), SubSeq(SamplePoints, 1, n))>> :
            n \in 0 .. 3}
    \cup {<<WithCoords(RawCluster(1, SamplePoints[1], f), SubSeq(SamplePoints, 1, 2)),
            RawCluster(2, SamplePoints[3], f)>>}

\* pointsToGeocode: the first min(10, length) points of location_coords, or
\* the centroid.
PointsToGeocode(cluster) ==
  IF Len(cluster.location_coords) > 0
  THEN SubSeq(cluster.location_coords, 1,
              IF MaxSamplePoints < Len(cluster.location_coords)
              THEN MaxSamplePoints ELSE Len(cluster.location_coords))
  ELSE <<Pt(cluster.center_lat, cluster.center_lng)>>

\* geocodingPromises of data.flatMap: one reverseGeocode call per point, in
\* the order of the clusters and of their points.
RECURSIVE BatchCalls(_, _)
BatchCalls(raw, k) ==
  IF k > Len(raw)
  THEN <<>>
  ELSE LET pts == PointsToGeocode(raw[k])
       IN [j \in 1 .. Len(pts) |->
             [cluster |-> raw[k], point |-> pts[j], status |-> "pending",
              result |-> NoData, answer |-> NoAnswer]]
          \o BatchCalls(raw, k + 1)

\* reverseGeocode's try block: fetch rejects on a network error,
\* `if (!response.ok) throw`, response.json() rejects on a malformed body.
ApiOutcome(answer) ==
  IF answer.kind = "network error" THEN "failed"
  ELSE IF ~(answer.status >= 200 /\ answer.status <= 299) THEN "failed"
  ELSE IF answer.kind = "malformed body" THEN "failed"
  ELSE "ok"

\* Mutant: reverseGeocode without its catch.
ReverseGeocodeNoCatch(answer) == IF ApiOutcome(answer) = "ok" THEN "ok" ELSE "rejected"

\* How reverseGeocode settles: "ok" returns the data, "failed" is the catch's
\* `return null`.
ReverseGeocode(answer) == IF ApiOutcome(answer) = "ok" THEN "ok" ELSE "failed"

\* Mutant: add() of an array, which keeps repeated values.
SetAddKeepsAll(list, v) == IF v = "" THEN list ELSE Append(list, v)

\* `if (v) set.add(v)` on a Set, whose Array.from lists values in insertion
\* order.
SetAdd(list, v) ==
  IF v = "" \/ \E i \in 1 .. Len(list) : list[i] = v THEN list ELSE Append(list, v)

NoFacets ==
  [neighborhoods |-> <<>>, cities |-> <<>>, states |-> <<>>, counties |-> <<>>,
   postal_codes |-> <<>>]

\* Mutant: the aggregation without its test of the result.
ResultIsReadAlways(r) == TRUE

\* `if (locationData)`: the fields of a result are read only when
\* reverseGeocode returned one, not null.
ResultIsRead(r) == r.status = "ok"

\* Reading a field of null throws a TypeError inside data.map, which the
\* catch of fetchData logs.
AggregationThrows(lks, f) ==
  \E k \in 1 .. Len(lks) :
    lks[k].cluster.gen = f /\ ResultIsRead(lks[k]) /\ lks[k].status # "ok"

\* clusterResults.forEach over the results lks[k], lks[k+1], ... of fetch
\* `gen` whose clusterId and jobType are the cluster's; a null result is
\* skipped.
RECURSIVE Aggregate(_, _, _, _, _)
Aggregate(acc, lks, k, cluster, gen) ==
  IF k > Len(lks)
  THEN acc
  ELSE LET r == lks[k]
           mine == /\ r.cluster.gen = gen
                   /\ r.cluster.cluster_id = cluster.cluster_id
                   /\ r.cluster.job_type = cluster.job_type
                   /\ ResultIsRead(r)
       IN Aggregate(IF mine
                    THEN [neighborhoods |-> SetAdd(acc.neighborhoods, r.result.neighborhood),
                          cities |-> SetAdd(acc.cities, r.result.city),
                          states |-> SetAdd(acc.states, r.result.state),
                          counties |-> SetAdd(acc.counties, r.result.county),
                          postal_codes |-> SetAdd(acc.postal_codes, r.result.postal_code)]
                    ELSE acc,
                    lks, k + 1, cluster, gen)

\* list.join(", ") as the sequence of its pieces.
RECURSIVE Join(_)
Join(list) ==
  IF Len(list) = 0 THEN <<>>
  ELSE IF Len(list) = 1 THEN <<list[1]>>
  ELSE <<list[1], ", ">> \o Join(Tail(list))

\* `${moreCount}`
NumberText(n) ==
  IF n = 1 THEN "1" ELSE IF n = 2 THEN "2" ELSE IF n = 3 THEN "3" ELSE "many"

\* Mutant: the count of all neighborhoods in place of those not shown.
BatchAreaNameCountsAll(neighborhoodList, cityList) ==
  IF Len(neighborhoodList) > 0
  THEN Join(SubSeq(neighborhoodList, 1, IF Len(neighborhoodList) < 2 THEN 1 ELSE 2))
         \o (IF Len(neighborhoodList) > 2
             THEN <<" +", NumberText(Len(neighborhoodList)), " more">> ELSE <<>>)
         \o (IF Len(cityList) > 0 THEN <<" (", cityList[1], ")">> ELSE <<>>)
  ELSE IF Len(cityList) > 0 THEN Join(cityList)
  ELSE <<"Unknown Area">>

\* Step 4: the friendly area name.
BatchAreaName(neighborhoodList, cityList) ==
  IF Len(neighborhoodList) > 0
  THEN LET displayNeighborhoods ==
             Join(SubSeq(neighborhoodList, 1, IF Len(neighborhoodList) < 2 THEN 1 ELSE 2))
           moreCount == Len(neighborhoodList) - 2
       IN (IF moreCount > 0
           THEN displayNeighborhoods \o <<" +", NumberText(moreCount), " more">>
           ELSE displayNeighborhoods)
          \o (IF Len(cityList) > 0 THEN <<" (", cityList[1], ")">> ELSE <<>>)
  ELSE IF Len(cityList) > 0 THEN Join(cityList)
  ELSE <<"Unknown Area">>

\* Step 5: the enhanced cluster object.
BatchCluster(cluster, agg) ==
  [job_type |-> cluster.job_type, cluster_id |-> cluster.cluster_id,
   center_lat |-> cluster.center_lat, center_lng |-> cluster.center_lng,
   gen |-> cluster.gen, location_coords |-> cluster.location_coords,
   area_name |-> BatchAreaName(agg.neighborhoods, agg.cities),
   neighborhoods |-> agg.neighborhoods, cities |-> agg.cities,
   counties |-> agg.counties, postal_codes |-> agg.postal_codes,
   state |-> IF Len(agg.states) > 0 THEN agg.states[1] ELSE ""]

\* The raw clusters of fetch f, in the order of the response.
BatchRaw(fs, f) == fs[f].raw

\* clustersWithLocations of fetch f from the settled calls lks.
ClustersWithLocations(fs, lks, f) ==
  [i \in 1 .. Len(BatchRaw(fs, f)) |->
     BatchCluster(BatchRaw(fs, f)[i], Aggregate(NoFacets, lks, 1, BatchRaw(fs, f)[i], f))]

\* Every call of fetch f has settled: Promise.all resolves.
AllSettled(lks, f) ==
  \A k \in 1 .. Len(lks) : lks[k].cluster.gen = f => lks[k].status # "pending"

\* fetchData() up to its await of the region query.
BatchStart(tab) ==
  /\ Len(fetches) < MaxBatchFetches
  /\ fetches' = Append(fetches, [tab |-> tab, status |-> "inflight", raw |-> <<>>])
  /\ isLoading' = TRUE

BatchMount ==
  /\ ~mounted
  /\ fetches = <<>>
  /\ mounted' = TRUE
  /\ BatchStart(activeTab)
  /\ UNCHANGED <<sideVars, routeVars, limVars, taskVars, geocodeCache, abortControllerRef,
                 activeTab, locations, clusters, lookups>>

\* moveend or zoomend.
BatchMapEvent ==
  /\ mounted
  /\ BatchStart(activeTab)
  /\ UNCHANGED <<sideVars, routeVars, limVars, taskVars, geocodeCache, abortControllerRef,
                 mounted, activeTab, locations, clusters, lookups>>

\* activeTab or jobTypeFilter changes: handlers off, new handlers on,
\* fetchData with the new props.
BatchPropsChange(tab) ==
  /\ mounted
  /\ activeTab' = tab
  /\ BatchStart(tab)
  /\ UNCHANGED <<sideVars, routeVars, limVars, taskVars, geocodeCache, abortControllerRef,
                 mounted, locations, clusters, lookups>>

\* /api/locations answers fetch f.
BatchLocationsResponse(f, data) ==
  /\ f \in 1 .. Len(fetches)
  /\ fetches[f].status = "inflight"
  /\ fetches[f].tab = "locations"
  /\ fetches' = [fetches EXCEPT ![f].status = "done"]
  /\ locations' = data
  /\ clusters' = <<>>
  /\ isLoading' = FALSE
  /\ UNCHANGED <<sideVars, routeVars, limVars, taskVars, geocodeCache, abortControllerRef,
                 mounted, activeTab, lookups>>

\* /api/clusters answers fetch f: every reverseGeocode call is issued and
\* fetchData awaits Promise.all, which resolves at once when there is no call.
BatchClustersResponse(f, raw) ==
  /\ f \in 1 .. Len(fetches)
  /\ fetches[f].status = "inflight"
  /\ fetches[f].tab = "clusters"
  /\ Len(lookups) + Len(BatchCalls(raw, 1)) <= MaxLookups
  /\ lookups' = lookups \o BatchCalls(raw, 1)
  /\ IF BatchCalls(raw, 1) = <<>>
     THEN /\ fetches' = [fetches EXCEPT ![f].status = "done", ![f].raw = raw]
          /\ clusters' = <<>>
          /\ locations' = <<>>
          /\ isLoading' = FALSE
     ELSE /\ fetches' = [fetches EXCEPT ![f].status = "geocoding", ![f].raw = raw]
          /\ UNCHANGED <<clusters, locations, isLoading>>
  /\ UNCHANGED <<sideVars, routeVars, limVars, taskVars, geocodeCache, abortControllerRef,
                 mounted, activeTab>>

\* The region query of fetch f fails: the catch logs it, finally clears the
\* loading flag.
BatchRegionError(f) ==
  /\ f \in 1 .. Len(fetches)
  /\ fetches[f].status = "inflight"
  /\ fetches' = [fetches EXCEPT ![f].status = "error"]
  /\ isLoading' = FALSE
  /\ UNCHANGED <<sideVars, routeVars, limVars, taskVars, geocodeCache, abortControllerRef,
                 mounted, activeTab, locations, clusters, lookups>>

\* /api/geocode answers call k with `answer` (and `data` when it is OK). When
\* it is the last call of its fetch to settle, Promise.all resolves and the
\* fetch publishes its clusters and clears the loading flag.
BatchGeocodeAnswer(k, answer, data) ==
  /\ k \in 1 .. Len(lookups)
  /\ lookups[k].status = "pending"
  /\ LET f == lookups[k].cluster.gen
         settled == ReverseGeocode(answer)
         lks == [lookups EXCEPT ![k].status = settled,
                                ![k].result = IF settled = "ok" THEN data ELSE NoData,
                                ![k].answer = answer]
     IN /\ lookups' = lks
        /\ IF ~AllSettled(lks, f)
           THEN UNCHANGED <<clusters, locations, isLoading, fetches>>
           ELSE IF AggregationThrows(lks, f)
           THEN /\ isLoading' = FALSE
                /\ fetches' = [fetches EXCEPT ![f].status = "error"]
                /\ UNCHANGED <<clusters, locations>>
           ELSE /\ clusters' = ClustersWithLocations(fetches, lks, f)
                /\ locations' = <<>>
                /\ isLoading' = FALSE
                /\ fetches' = [fetches EXCEPT ![f].status = "done"]
  /\ UNCHANGED <<sideVars, routeVars, limVars, taskVars, geocodeCache, abortControllerRef,
                 mounted, activeTab>>

NextBatch ==
  \/ BatchMount
  \/ BatchMapEvent
  \/ \E tab \in {"locations", "clusters"} : BatchPropsChange(tab)
  \/ \E f \in 1 .. MaxBatchFetches : \E data \in LocationResponses(f) : BatchLocationsResponse(f, data)
  \/ \E f \in 1 .. MaxBatchFetches : \E raw \in BatchResponses(f) : BatchClustersResponse(f, raw)
  \/ \E f \in 1 .. MaxBatchFetches : BatchRegionError(f)
  \/ \E k \in 1 .. MaxLookups : \E data \in GeoData : BatchGeocodeAnswer(k, OkAnswer, data)
  \/ \E k \in 1 .. MaxLookups : BatchGeocodeAnswer(k, Answer("status", 500), NoData)

SpecBatch == InitFetcher /\ [][NextBatch]_vars

\* One fetch cycle of the component, with the richer results.
NextBatchNames ==
  \/ BatchMount
  \/ \E data \in LocationResponses(1) : BatchLocationsResponse(1, data)
  \/ \E raw \in BatchResponses(1) : BatchClustersResponse(1, raw)
  \/ BatchRegionError(1)
  \/ \E k \in 1 .. MaxLookups : \E data \in SampleData : BatchGeocodeAnswer(k, OkAnswer, data)
  \/ \E k \in 1 .. MaxLookups : BatchGeocodeAnswer(k, Answer("status", 500), NoData)

SpecBatchNames == InitFetcher /\ [][NextBatchNames]_vars

\* ---------------------------------------------------------------------------
\* The /api/geocode route (Nominatim) behind reverseGeocodeWithCache
\* ---------------------------------------------------------------------------
CACHE_TTL == 7 * 24 * 60 * 60 * 1000
RATE_LIMIT_WINDOW == 60000
MAX_REQUESTS_PER_WINDOW == 50
CacheCleanupSize == 10000

\* Calls of reverseGeocodeWithCache, and cache lifetimes the clock runs through.
MaxCalls == 2
MaxLifetimes == 1

\* `${lat}` in the URL: sign, whole degrees and five decimals of a coordinate.
NumberToString(x) ==
  LET mag == IF x < 0 THEN 0 - x ELSE x
  IN <<IF x < 0 THEN "-" ELSE "", mag \div 100000, mag % 100000>>

\* parseFloat(lat)
ParseFloat(s) ==
  IF s[1] = "-" THEN 0 - (s[2] * 100000 + s[3]) ELSE s[2] * 100000 + s[3]

\* searchParams.get() of a parameter the URL does not have (null), and of one
\* it has without a value (the empty string).
MissingParam == <<>>
EmptyParam == <<"">>

\* `!param`
Not(param) == param = MissingParam \/ param = EmptyParam

\* The request fetch(`/api/geocode?lat=${lat}&lng=${lng}`) sends for task t;
\* the proxy in front of the route adds the browser's address.
GeocodeRequest(t, lat, lng) ==
  [task |-> t, lat |-> NumberToString(lat), lng |-> NumberToString(lng),
   forwardedFor |-> "203.0.113.7", realIp |-> ""]

getRateLimitKey(request) ==
  IF request.forwardedFor # "" THEN request.forwardedFor
  ELSE IF request.realIp # "" THEN request.realIp
  ELSE "unknown"

\* Mutant: the comparison that lets one more request through.
LimitReachedLate(count) == count > MAX_REQUESTS_PER_WINDOW

\* `if (record.count >= MAX_REQUESTS_PER_WINDOW)`
LimitReached(count) == count >= MAX_REQUESTS_PER_WINDOW

\* Mutant: a refusal that counts.
AfterRefusalCounts(map, record) == (map \ {record}) \cup {[record EXCEPT !.count = @ + 1]}

\* `return false` comes before `record.count++`.
AfterRefusal(map, record) == map

\* checkRateLimit(key) at time t0: the map afterwards and the answer.
checkRateLimit(map, key, t0) ==
  LET records == {r \in map : r.key = key}
      record == CHOOSE r \in records : TRUE
  IN IF records = {} \/ t0 > record.resetTime
     THEN [map |-> (map \ records)
                     \cup {[key |-> key, count |-> 1, resetTime |-> t0 + RATE_LIMIT_WINDOW]},
           allowed |-> TRUE]
     ELSE IF LimitReached(record.count)
     THEN [map |-> AfterRefusal(map, record), allowed |-> FALSE]
     ELSE [map |-> (map \ records) \cup {[record EXCEPT !.count = @ + 1]},
           allowed |-> TRUE]

\* `${parseFloat(lat).toFixed(4)},${parseFloat(lng).toFixed(4)}`
RouteCacheKey(lat, lng) == <<ToFixed4(ParseFloat(lat)), ToFixed4(ParseFloat(lng))>>

\* Mutant: the cache test without the age of the entry.
RouteCacheFreshAlways(cache, key, t0) == \E e \in cache : e.key = key

\* cached && Date.now() - cached.timestamp < CACHE_TTL
RouteCacheFresh(cache, key, t0) ==
  \E e \in cache : e.key = key /\ t0 - e.timestamp < CACHE_TTL

RouteCacheGet(cache, key) == (CHOOSE e \in cache : e.key = key).data

\* Mutant: the cleanup on every store.
CleanupDueAlways(set) == TRUE

\* geocodeCache.size > 10000
CleanupDue(set) == Cardinality(set) > CacheCleanupSize

\* now - value.timestamp > CACHE_TTL
Evictable(e, t0) == t0 - e.timestamp > CACHE_TTL

\* geocodeCache.set(cacheKey, {data, timestamp}), then the cleanup of expired
\* entries once the map has more than 10000; `point` records the request's
\* coordinates.
RouteCacheSet(cache, key, data, t0, point) ==
  LET set == {e \in cache : e.key # key}
               \cup {[key |-> key, data |-> data, timestamp |-> t0, point |-> point]}
  IN IF CleanupDue(set)
     THEN {e \in set : ~Evictable(e, t0)}
     ELSE set

\* The unexpired results the route's cache holds for points that round as p.
FreshNear(cache, p, t0) ==
  {e.data : e \in {x \in cache : SameRounded(x.point, p) /\ t0 - x.timestamp < CACHE_TTL}}

\* `!lat || !lng`
MissingLatLng(lat, lng) == Not(lat) \/ Not(lng)

\* GET up to its first await or its return: `fetch` says whether the handler
\* goes on to ask the provider.
RouteGet(request, t0) ==
  IF MissingLatLng(request.lat, request.lng)
  THEN [rateLimitMap |-> rateLimitMap, fetch |-> FALSE, status |-> 400, body |-> NoData]
  ELSE LET rl == checkRateLimit(rateLimitMap, getRateLimitKey(request), t0)
           cacheKey == RouteCacheKey(request.lat, request.lng)
       IN IF ~rl.allowed
          THEN [rateLimitMap |-> rl.map, fetch |-> FALSE, status |-> 429, body |-> NoData]
          ELSE IF RouteCacheFresh(serverCache, cacheKey, t0)
          THEN [rateLimitMap |-> rl.map, fetch |-> FALSE, status |-> 200,
                body |-> RouteCacheGet(serverCache, cacheKey)]
          ELSE [rateLimitMap |-> rl.map, fetch |-> TRUE, status |-> 0, body |-> NoData]

\* The request of the task that loop i awaits reaches the route. `near`
\* records what the route's cache held, unexpired, for points that round as
\* the request's point does.
RouteRequest(i) ==
  /\ i \in 1 .. Len(loops)
  /\ loops[i].pc = "awaiting"
  /\ lookups[loops[i].task].status = "pending"
  /\ LET t == loops[i].task
         c == lookups[t].cluster
         request == GeocodeRequest(t, c.center_lat, c.center_lng)
         r == RouteGet(request, now)
         near == FreshNear(serverCache, Pt(ParseFloat(request.lat), ParseFloat(request.lng)), now)
     IN /\ rateLimitMap' = r.rateLimitMap
        /\ lookups' = [lookups EXCEPT ![t].status = "sent"]
        /\ IF r.fetch
           THEN /\ inRoute' = inRoute \cup {[request |-> request, near |-> near]}
                /\ UNCHANGED responses
           ELSE /\ responses' = responses
                      \cup {[task |-> t, status |-> r.status, body |-> r.body, near |-> near]}
                /\ UNCHANGED inRoute
  /\ UNCHANGED <<sideVars, serverCache, limVars, taskVars, geocodeCache, mounted, activeTab,
                 abortControllerRef, fetches, isLoading, locations, clusters>>

\* The provider answers a request of the route with the address `data`: the
\* result is cached under the request's key and returned.
ProviderOk(q, data) ==
  /\ q \in inRoute
  /\ LET request == q.request
     IN /\ serverCache' =
             RouteCacheSet(serverCache, RouteCacheKey(request.lat, request.lng), data,
                           now, Pt(ParseFloat(request.lat), ParseFloat(request.lng)))
        /\ responses' = responses
              \cup {[task |-> request.task, status |-> 200, body |-> data, near |-> q.near]}
  /\ inRoute' = inRoute \ {q}
  /\ UNCHANGED <<sideVars, rateLimitMap, limVars, taskVars, fetchVars>>

\* The provider's answer is not OK, or the fetch fails: the catch answers 500.
ProviderFail(q) ==
  /\ q \in inRoute
  /\ inRoute' = inRoute \ {q}
  /\ responses' = responses
        \cup {[task |-> q.request.task, status |-> 500, body |-> NoData, near |-> q.near]}
  /\ UNCHANGED <<sideVars, serverCache, rateLimitMap, limVars, taskVars, fetchVars>>

\* The route's answer reaches the browser: response.ok caches and returns the
\* body, any other status throws inside the task.
RouteResponse(i) ==
  \E r \in responses :
    /\ i \in 1 .. Len(loops)
    /\ loops[i].pc = "awaiting"
    /\ r.task = loops[i].task
    /\ IF r.status = 200
       THEN LookupResolved(i, r.body)
       ELSE LookupFailed(i, Answer("status", r.status))
    /\ responses' = responses \ {r}
    /\ UNCHANGED <<serverCache, rateLimitMap, inRoute>>

\* The request is lost on its way to the route: fetch rejects.
NetworkError(i) ==
  /\ i \in 1 .. Len(loops)
  /\ loops[i].pc = "awaiting"
  /\ lookups[loops[i].task].status = "pending"
  /\ LookupFailed(i, Answer("network error", 0))
  /\ UNCHANGED routeVars

\* A caller (the geocodingPromises callback of some response) looks up the
\* centroid of a cluster.
LookupWithin(c, max) ==
  /\ Len(lookups) < max
  /\ LET r == GeocodeCall(RL, lookups, c, now)
     IN /\ SetRL(r.L)
        /\ lookups' = r.lookups
  /\ UNCHANGED <<sideVars, routeVars, now, taskVars, geocodeCache, mounted, activeTab,
                 abortControllerRef, fetches, isLoading, locations, clusters>>

Lookup(c) == LookupWithin(c, MaxCalls)

\* The clock, one cache lifetime at a time.
TickLifetime ==
  /\ now < MaxLifetimes * CACHE_TTL
  /\ TickBy(CACHE_TTL, CACHE_TTL + 2 * minInterval)

NextGeocode ==
  \/ \E p \in Points : Lookup(RawCluster(1, p, 0))
  \/ \E i \in 1 .. MaxCalls : RouteRequest(i)
  \/ \E q \in inRoute : \E data \in GeoData : ProviderOk(q, data)
  \/ \E q \in inRoute : ProviderFail(q)
  \/ \E i \in 1 .. MaxCalls : RouteResponse(i)
  \/ \E i \in 1 .. MaxCalls : NetworkError(i)
  \/ \E i \in 1 .. MaxCalls : WakeLoop(i)
  \/ TickInterval
  \/ TickLifetime

SpecGeocode == InitLimiter /\ [][NextGeocode]_vars

\* ---------------------------------------------------------------------------
\* The /api/geocode route with a cache near its cleanup size, under requests
\* of another client
\* ---------------------------------------------------------------------------
\* Requests the other client sends per rate-limit window.
MaxDirect == 1

\* The point of the i-th entry the cache already holds: 0.0001 degree apart.
StoredPoint(i) == Pt(1000000 + 10 * i, 2000000)

\* The entry a successful request for StoredPoint(i) stored; the even ones at
\* time 0, the odd ones when the page loaded.
StoredEntry(i) ==
  [key |-> RouteCacheKey(NumberToString(StoredPoint(i).lat), NumberToString(StoredPoint(i).lng)),
   data |-> NoData,
   timestamp |-> IF i % 2 = 0 THEN 0 ELSE StartTime,
   point |-> StoredPoint(i)]

\* The cache after n successful requests for distinct keys.
StoredCache(n) == {StoredEntry(i) : i \in 0 .. n - 1}

\* One or two entries short of the cleanup, or exactly at its size.
InitCleanup ==
  /\ queue = RLInit.queue
  /\ processing = RLInit.processing
  /\ lastCallTime = RLInit.lastCallTime
  /\ loops = RLInit.loops
  /\ started = RLInit.started
  /\ now = StartTime
  /\ taskState = [t \in TaskIds |-> "unsubmitted"]
  /\ promise = [t \in TaskIds |-> "none"]
  /\ FetcherInit
  /\ serverCache \in {StoredCache(CacheCleanupSize - 1), StoredCache(CacheCleanupSize)}
  /\ rateLimitMap = {}
  /\ inRoute = {}
  /\ responses = {}
  /\ gemini = GeminiIdle
  /\ regionApi = RegionIdle
  /\ admission = AdmissionIdle
  /\ selectedLocation = <<>>
  /\ selectedCluster = <<>>

\* Points the other client asks for: two the cache holds (stored at time 0 and
\* at page load) and two it does not.
DirectPoints == {StoredPoint(0), StoredPoint(1), Pt(3277656, -9679704), Pt(5147780, 1)}

\* The address the provider has for the points the other client asks for.
DirectData == {d \in GeoData : d.neighborhood # ""}

\* The request of a client that is not the map page.
DirectRequest(p) ==
  [task |-> 0, lat |-> NumberToString(p.lat), lng |-> NumberToString(p.lng),
   forwardedFor |-> "", realIp |-> "198.51.100.9"]

\* GET for a request of the other client, whose answer leaves the system.
RouteDirect(p) ==
  /\ \A r \in rateLimitMap :
       (r.key = getRateLimitKey(DirectRequest(p)) /\ now <= r.resetTime) => r.count < MaxDirect
  /\ LET request == DirectRequest(p)
         r == RouteGet(request, now)
     IN /\ rateLimitMap' = r.rateLimitMap
        /\ inRoute' = IF r.fetch THEN inRoute \cup {[request |-> request, near |-> {}]}
                      ELSE inRoute
  /\ UNCHANGED <<sideVars, serverCache, responses, limVars, taskVars, fetchVars>>

\* The provider answers a request of the other client with an address: the
\* result is cached under the request's key and returned.
DirectProviderOk(q, data) ==
  /\ q \in inRoute
  /\ serverCache' =
       RouteCacheSet(serverCache, RouteCacheKey(q.request.lat, q.request.lng), data,
                     now, Pt(ParseFloat(q.request.lat), ParseFloat(q.request.lng)))
  /\ inRoute' = inRoute \ {q}
  /\ UNCHANGED <<sideVars, rateLimitMap, responses, limVars, taskVars, fetchVars>>

\* The provider's answer is not OK, or the fetch fails: the catch answers 500.
DirectProviderFail(q) ==
  /\ q \in inRoute
  /\ inRoute' = inRoute \ {q}
  /\ UNCHANGED <<sideVars, serverCache, rateLimitMap, responses, limVars, taskVars, fetchVars>>

NextCleanup ==
  \/ \E p \in DirectPoints : RouteDirect(p)
  \/ \E q \in inRoute : \E data \in DirectData : DirectProviderOk(q, data)
  \/ \E q \in inRoute : DirectProviderFail(q)
  \/ TickLifetime

SpecCleanup == InitCleanup /\ [][NextCleanup]_vars

\* ---------------------------------------------------------------------------
\* The parameter checks of /api/locations, /api/clusters and /api/geocode
\* ---------------------------------------------------------------------------
\* Requests the three routes receive.
MaxRegionRequests == 3

\* A query parameter: absent, empty, or a number.
ParamValues == {MissingParam, EmptyParam, NumberToString(3277656)}

\* min_lat, min_lng, max_lat, max_lng of a request, in that order.
BBoxQueries == ParamValues \X ParamValues \X ParamValues \X ParamValues

\* Mutant: the test without max_lng.
MissingBBoxButMaxLng(q) == Not(q[1]) \/ Not(q[2]) \/ Not(q[3])

\* `!min_lat || !min_lng || !max_lat || !max_lng`
MissingBBox(q) == Not(q[1]) \/ Not(q[2]) \/ Not(q[3]) \/ Not(q[4])

\* GET of /api/locations or /api/clusters: 400 without a bounding box, else
\* the handler awaits supabase.rpc.
RegionGet(route, q) ==
  /\ regionApi.count < MaxRegionRequests
  /\ regionApi' =
       IF MissingBBox(q)
       THEN [regionApi EXCEPT !.count = @ + 1,
                              !.request = [route |-> route, query |-> q],
                              !.answer = [route |-> route, query |-> q, status |-> 400]]
       ELSE [regionApi EXCEPT !.count = @ + 1,
                              !.request = [route |-> route, query |-> q],
                              !.calls = @ \cup {[route |-> route, query |-> q]}]
  /\ UNCHANGED <<gemini, admission, selectedLocation, selectedCluster, routeVars, limVars, taskVars, fetchVars>>

\* supabase.rpc settles: 500 with an error, else the rows.
RpcAnswer(call, error) ==
  /\ call \in regionApi.calls
  /\ regionApi' =
       [regionApi EXCEPT !.calls = @ \ {call},
                         !.answer = [route |-> call.route, query |-> call.query,
                                     status |-> IF error THEN 500 ELSE 200]]
  /\ UNCHANGED <<gemini, admission, selectedLocation, selectedCluster, routeVars, limVars, taskVars, fetchVars>>

\* GET of /api/geocode for a request of another client with the parameters
\* lat and lng.
GeocodeGet(lat, lng) ==
  /\ regionApi.count < MaxRegionRequests
  /\ LET request == [task |-> 0, lat |-> lat, lng |-> lng,
                     forwardedFor |-> "", realIp |-> "198.51.100.9"]
         r == RouteGet(request, now)
     IN /\ rateLimitMap' = r.rateLimitMap
        /\ inRoute' = IF r.fetch THEN inRoute \cup {[request |-> request, near |-> {}]}
                      ELSE inRoute
        /\ regionApi' =
             [regionApi EXCEPT
                !.count = @ + 1,
                !.request = [route |-> "geocode", query |-> <<lat, lng>>],
                !.answer = IF r.fetch THEN @
                           ELSE [route |-> "geocode", query |-> <<lat, lng>>,
                                 status |-> r.status]]
  /\ UNCHANGED <<gemini, admission, selectedLocation, selectedCluster, serverCache, responses, limVars, taskVars, fetchVars>>

NextParams ==
  \/ \E route \in {"locations", "clusters"} : \E q \in BBoxQueries : RegionGet(route, q)
  \/ \E call \in regionApi.calls : \E error \in BOOLEAN : RpcAnswer(call, error)
  \/ \E lat, lng \in ParamValues : GeocodeGet(lat, lng)
  \/ \E q \in inRoute : \E data \in DirectData : DirectProviderOk(q, data)
  \/ \E q \in inRoute : DirectProviderFail(q)

SpecParams == InitLimiter /\ [][NextParams]_vars


\* ---------------------------------------------------------------------------
\* The /api/geocode route under clients that press against its request limit
\* ---------------------------------------------------------------------------
\* Windows of the limit the clock runs through, and requests per window of
\* the clients other than the pressing one.
MaxWindows == 2
MaxOther == 1

\* The pressing client sends both headers, the second only x-real-ip, the
\* third neither; the pressing client shares the route with one of the other
\* two at a time.
LimitClients ==
  {[forwardedFor |-> "203.0.113.7", realIp |-> "198.51.100.9"],
   [forwardedFor |-> "", realIp |-> "198.51.100.9"],
   [forwardedFor |-> "", realIp |-> ""]}

PressingKey == "203.0.113.7"

LimitPoint == Pt(3277656, -9679704)

LimitedRequest(client) ==
  [task |-> 0, lat |-> NumberToString(LimitPoint.lat), lng |-> NumberToString(LimitPoint.lng),
   forwardedFor |-> client.forwardedFor, realIp |-> client.realIp]

\* What a client that counts its admitted requests sees: a window opens with
\* the first admission and with the first one later than RATE_LIMIT_WINDOW
\* after the opening of the window before.
Admitted(windows, key, t0) ==
  LET mine == {w \in windows : w.key = key}
      w == CHOOSE x \in mine : TRUE
  IN IF mine = {} \/ t0 > w.opened + RATE_LIMIT_WINDOW
     THEN (windows \ mine) \cup {[key |-> key, opened |-> t0, admitted |-> 1]}
     ELSE (windows \ mine) \cup {[w EXCEPT !.admitted = @ + 1]}

\* A request of `client` runs GET up to the provider fetch or to its answer.
LimitedGet(client) ==
  LET request == LimitedRequest(client)
      key == getRateLimitKey(request)
      r == RouteGet(request, now)
  IN /\ \A rec \in rateLimitMap :
          (rec.key = key /\ key # PressingKey /\ now <= rec.resetTime) => rec.count < MaxOther
     /\ Cardinality({rec.key : rec \in rateLimitMap} \cup {PressingKey, key}) <= 2
     /\ rateLimitMap' = r.rateLimitMap
     /\ inRoute' = IF r.fetch THEN inRoute \cup {[request |-> request, near |-> {}]}
                    ELSE inRoute
     /\ admission' =
          [last |-> [key |-> key, at |-> now,
                     status |-> IF r.fetch THEN 0 ELSE r.status, body |-> r.body],
           windows |-> IF r.fetch \/ r.status = 200
                       THEN Admitted(admission.windows, key, now)
                       ELSE admission.windows]
     /\ UNCHANGED <<gemini, regionApi, selectedLocation, selectedCluster, serverCache,
                    responses, limVars, taskVars, fetchVars>>

\* The clock, one window of the limit at a time.
TickWindow ==
  /\ now < StartTime + MaxWindows * RATE_LIMIT_WINDOW
  /\ now' = now + RATE_LIMIT_WINDOW
  /\ UNCHANGED <<sideVars, routeVars, queue, processing, lastCallTime, loops, started,
                 taskVars, fetchVars>>

NextRateLimit ==
  \/ \E client \in LimitClients : LimitedGet(client)
  \/ \E q \in inRoute : \E data \in DirectData : DirectProviderOk(q, data)
  \/ \E q \in inRoute : DirectProviderFail(q)
  \/ TickWindow

SpecRateLimit == InitLimiter /\ [][NextRateLimit]_vars

\* ---------------------------------------------------------------------------
\* MapWithClusters: the selection, over what the DataFetcher publishes
\* ---------------------------------------------------------------------------
Selection == [location |-> selectedLocation, cluster |-> selectedCluster]

\* Mutant: a location click that leaves the selected cluster.
HandleLocationClickKeepsCluster(sel, location) ==
  [location |-> <<location>>, cluster |-> sel.cluster]

\* handleLocationClick: setSelectedLocation(location); setSelectedCluster(null)
HandleLocationClick(sel, location) == [location |-> <<location>>, cluster |-> <<>>]

\* handleClusterClick: setSelectedCluster(cluster); setSelectedLocation(null)
HandleClusterClick(sel, cluster) == [location |-> <<>>, cluster |-> <<cluster>>]

SetSelection(sel) ==
  /\ selectedLocation' = sel.location
  /\ selectedCluster' = sel.cluster
  /\ UNCHANGED <<gemini, regionApi, admission, routeVars, limVars, taskVars, fetchVars>>

\* A click on the marker or the sidebar row of the i-th published location;
\* both are rendered on the locations tab only.
LocationClick(i) ==
  /\ activeTab = "locations"
  /\ i \in 1 .. Len(locations)
  /\ SetSelection(HandleLocationClick(Selection, locations[i]))

\* A click on the marker or the sidebar row of the i-th published cluster.
ClusterClick(i) ==
  /\ activeTab = "clusters"
  /\ i \in 1 .. Len(clusters)
  /\ SetSelection(HandleClusterClick(Selection, clusters[i]))

\* The close button of LocationInfo, rendered while a location is selected.
CloseLocationInfo ==
  /\ selectedLocation # <<>>
  /\ SetSelection([Selection EXCEPT !.location = <<>>])

\* The close button of ClusterInfo, rendered while a cluster is selected.
CloseClusterInfo ==
  /\ selectedCluster # <<>>
  /\ SetSelection([Selection EXCEPT !.cluster = <<>>])

\* The address every lookup of this section is answered with.
SelectionData == CHOOSE d \in SampleData : d.neighborhood # "" /\ d.city # ""

\* The responses of /api/clusters in this section: one cluster, or two with
\* distinct identity keys, each geocoded at its centroid.
SelectionResponses(f) ==
  {<<RawCluster(1, SamplePoints[1], f)>>,
   <<RawCluster(1, SamplePoints[1], f), RawCluster(2, SamplePoints[3], f)>>}

NextSelection ==
  \/ BatchMount
  \/ BatchMapEvent
  \/ \E tab \in {"locations", "clusters"} : BatchPropsChange(tab)
  \/ \E f \in 1 .. MaxBatchFetches : \E data \in LocationResponses(f) :
       BatchLocationsResponse(f, data)
  \/ \E f \in 1 .. MaxBatchFetches : \E raw \in SelectionResponses(f) :
       BatchClustersResponse(f, raw)
  \/ \E k \in 1 .. MaxLookups : BatchGeocodeAnswer(k, OkAnswer, SelectionData)
  \/ \E i \in 1 .. MaxLookups : LocationClick(i)
  \/ \E i \in 1 .. MaxLookups : ClusterClick(i)
  \/ CloseLocationInfo
  \/ CloseClusterInfo

SpecSelection == InitFetcher /\ [][NextSelection]_vars

\* ---- claims about the RateLimiter ----

\* C3: the time between the dispatch of two consecutive tasks is never less
\* than minInterval, whenever and however often add() is called.
C3_MinInterval ==
  \A k \in 2 .. Len(started) : started[k][2] - started[k - 1][2] >= minInterval

\* Three dispatches, one exactly an interval after its predecessor (the loop
\* slept) and one later than that (the loop found the interval elapsed).
C3_Witness ==
  /\ Len(started) >= 3
  /\ \E k \in 2 .. Len(started) : started[k][2] - started[k - 1][2] = minInterval
  /\ \E k \in 2 .. Len(started) : started[k][2] - started[k - 1][2] > minInterval

\* C4: tasks are dispatched in the order of their add() calls (tasks are
\* numbered in that order), also those added while the loop sleeps or awaits.
C4_Fifo ==
  \A k \in 1 .. Len(started) : started[k][1] = k

\* Two tasks were dispatched in order while a third, added meanwhile, waits
\* behind a sleeping loop.
C4_Witness ==
  /\ Len(started) = 2
  /\ Len(queue) >= 1
  /\ \E i \in 1 .. Len(loops) : loops[i].pc = "sleeping"

\* C5: at most one task is executing and at most one process() loop is live,
\* however many add() calls arrive meanwhile.
C5_SingleFlight ==
  /\ Cardinality({t \in TaskIds : taskState[t] = "running"}) <= 1
  /\ Len(loops) <= 1
  /\ processing <=> Len(loops) = 1

\* A task is running while two more add() calls have queued their tasks.
C5_Witness ==
  /\ Len(loops) = 1
  /\ loops[1].pc = "awaiting"
  /\ taskState[loops[1].task] = "running"
  /\ Len(queue) >= 2

\* C6: a failing task rejects only the promise of its own add(); the loop
\* stays alive while tasks are queued, and every task queued behind the
\* failed one is dispatched.
C6_FailureIsolation ==
  /\ [](\A t \in TaskIds : promise[t] = "rejected" => taskState[t] = "failed")
  /\ [](Len(queue) > 0 => processing /\ Len(loops) = 1)
  /\ \A t, u \in TaskIds :
       (taskState[t] = "failed" /\ taskState[u] = "queued")
         ~> (taskState[u] \in {"running", "ok", "failed"})

\* A task failed, a task added after it has been dispatched and resolved its
\* own promise, and another is still to come.
C6_Witness ==
  \E t, u \in TaskIds :
    /\ t < u
    /\ taskState[t] = "failed" /\ promise[t] = "rejected"
    /\ taskState[u] = "ok" /\ promise[u] = "resolved"
    /\ \E v \in TaskIds : taskState[v] = "running"

\* C29: provided every task terminates, every task handed to add() is
\* eventually executed, exactly once, and the promise add() returned settles
\* with that task's own result or error, whether the task was added while the
\* loop slept, while a task ran, or as the loop emptied the queue; an idle
\* limiter has an empty queue.
C29_NoLostWakeup ==
  /\ [](\A j, k \in 1 .. Len(started) : started[j][1] = started[k][1] => j = k)
  /\ [](\A t \in TaskIds :
          /\ promise[t] = "resolved" => taskState[t] = "ok"
          /\ promise[t] = "rejected" => taskState[t] = "failed"
          /\ taskState[t] \in {"running", "ok", "failed"}
               => \E k \in 1 .. Len(started) : started[k][1] = t)
  /\ [](~processing => Len(queue) = 0 /\ Len(loops) = 0)
  /\ \A t \in TaskIds :
       (promise[t] = "pending")
         ~> (/\ promise[t] \in {"resolved", "rejected"}
             /\ taskState[t] \in {"ok", "failed"})

\* The loop emptied the queue and went idle, a task added after that has been
\* executed and has settled its promise, and the limiter is idle again.
C29_Witness ==
  /\ ~processing
  /\ Len(started) >= 2
  /\ \E k \in 2 .. Len(started) :
       /\ taskState[started[k - 1][1]] \in {"ok", "failed"}
       /\ started[k][2] - started[k - 1][2] > minInterval
       /\ promise[started[k][1]] \in {"resolved", "rejected"}

\* ---- claims about the DataFetcher ----

\* The fetch cycle triggered last.
CurrentGen == Len(fetches)

\* The lookups whose network call is queued in the limiter or in flight.
PendingLookups == {t \in 1 .. Len(lookups) : lookups[t].status = "pending"}

LookupPoint(t) == Pt(lookups[t].cluster.center_lat, lookups[t].cluster.center_lng)

\* C1: a geocode result of an earlier fetch cycle that settles after a newer
\* fetch was triggered never changes the published cluster list.
C1_GenerationDiscard ==
  [][\A t \in PendingLookups :
       (/\ t \in 1 .. Len(lookups')
        /\ lookups'[t].status \in {"ok", "failed"}
        /\ lookups[t].cluster.gen < CurrentGen)
       => clusters' = clusters]_vars

\* C2: once the response of the later of two fetches has been processed, the
\* list it published (clusters for a clusters fetch, locations for a
\* locations fetch) holds that fetch's items only, never an earlier fetch's.
C2_LaterGenerationWins ==
  \A f \in 1 .. Len(fetches) :
    (/\ fetches[f].status = "done"
     /\ \A g \in f + 1 .. Len(fetches) : fetches[g].status # "done")
    => IF fetches[f].tab = "clusters"
       THEN \A i \in 1 .. Len(clusters) : clusters[i].gen = f
       ELSE clusters = <<>> /\ \A i \in 1 .. Len(locations) : locations[i].gen = f

\* C7: at most one network lookup is pending (queued or in flight) for a
\* cache key at any time.
C7_Coalescing ==
  \A t, u \in PendingLookups :
    SameKey4(LookupPoint(t), LookupPoint(u)) => t = u

\* C8: two clusters of one response with an identical representative point
\* cause one network lookup for it, not two.
C8_BatchDedup ==
  \A t, u \in 1 .. Len(lookups) :
    (/\ t # u
     /\ lookups[t].cluster.gen = lookups[u].cluster.gen
     /\ LookupPoint(t) = LookupPoint(u))
    => lookups[t].status = "hit" \/ lookups[u].status = "hit"

\* C9: a call made while the cache holds an entry for the point's key returns
\* that entry and is no task of the limiter; a handler all of whose calls
\* are such hits leaves the limiter as it was.
C9_CacheHitBypass ==
  [][LET new == Len(lookups) + 1 .. Len(lookups')
         hits == {k \in new : lookups'[k].stored # {}}
     IN /\ \A k \in hits :
             /\ lookups'[k].status = "hit"
             /\ lookups'[k].result \in lookups'[k].stored
             /\ \A j \in 1 .. Len(queue') : queue'[j] # k
             /\ \A j \in 1 .. Len(started') : started'[j][1] # k
        /\ (new # {} /\ hits = new) =>
             UNCHANGED <<queue, processing, lastCallTime, loops, started>>]_vars

\* Of one response, one call was a cache hit whose callback named its cluster
\* and the other a miss that went to the limiter.
C9_Witness ==
  \E k, m \in 1 .. Len(lookups) :
    /\ lookups[k].status = "hit" /\ lookups[k].stored # {}
    /\ lookups[m].status = "pending"
    /\ lookups[m].cluster.gen = lookups[k].cluster.gen
    /\ \E i \in 1 .. Len(clusters) :
         /\ clusters[i].gen = lookups[k].cluster.gen
         /\ clusters[i].cluster_id = lookups[k].cluster.cluster_id
         /\ clusters[i].job_type = lookups[k].cluster.job_type
         /\ clusters[i].area_name # Pending

\* ---------------------------------------------------------------------------
\* The /api/geocode route (Gemini) and its fetchWithRetry
\* ---------------------------------------------------------------------------
retries == 3

\* Math.random() * 1000, to the millisecond.
Jitters == {0, 500, 999}

\* Math.pow(2, i)
Pow2(i) == IF i = 0 THEN 1 ELSE IF i = 1 THEN 2 ELSE IF i = 2 THEN 4 ELSE 8

\* Math.pow(2, i) * 1000 + Math.random() * 1000
RetryDelay(i, jitter) == Pow2(i) * 1000 + jitter

\* `i < retries`, the condition of fetchWithRetry's loop.
LoopGoesOn(i) == i < retries

\* `if (response.status !== 429) return response`
ReturnsResponse(status) == status # 429

\* What GET answers once fetchWithRetry has returned a response with
\* `status`: not OK throws into the catch (500), OK parses the body, which
\* throws if it is not JSON.
GeminiAnswer(status, json) ==
  IF ~(status >= 200 /\ status <= 299) THEN 500
  ELSE IF ~json THEN 500
  ELSE 200

\* The request reaches GET: 400 without lat or lng, else fetchWithRetry
\* issues its first fetch.
GeminiGet(hasLat, hasLng) ==
  /\ gemini.pc = "idle"
  /\ gemini' = IF ~hasLat \/ ~hasLng
               THEN [gemini EXCEPT !.pc = "done", !.response = 400]
               ELSE [gemini EXCEPT !.pc = "fetching"]
  /\ UNCHANGED <<limVars, taskVars, fetchVars, serverCache, rateLimitMap, inRoute, responses, regionApi,
                 admission, selectedLocation, selectedCluster>>

\* The provider answers the fetch with `status`: any status but 429 is
\* returned and GET answers; a 429 starts the backoff timer.
GeminiProviderAnswer(status, json, jitter) ==
  /\ gemini.pc = "fetching"
  /\ gemini' =
       IF ReturnsResponse(status)
       THEN [gemini EXCEPT !.pc = "done", !.statuses = Append(@, status),
                           !.outcome = "returned", !.returned = status,
                           !.response = GeminiAnswer(status, json)]
       ELSE [gemini EXCEPT !.pc = "waiting", !.statuses = Append(@, status),
                           !.wakeAt = now + RetryDelay(gemini.i, jitter),
                           !.waits = Append(@, RetryDelay(gemini.i, jitter))]
  /\ UNCHANGED <<limVars, taskVars, fetchVars, serverCache, rateLimitMap, inRoute, responses, regionApi,
                 admission, selectedLocation, selectedCluster>>

\* The fetch rejects: fetchWithRetry rejects and GET's catch answers 500.
GeminiNetworkError ==
  /\ gemini.pc = "fetching"
  /\ gemini' = [gemini EXCEPT !.pc = "done", !.statuses = Append(@, 0),
                              !.outcome = "rejected", !.response = 500]
  /\ UNCHANGED <<limVars, taskVars, fetchVars, serverCache, rateLimitMap, inRoute, responses, regionApi,
                 admission, selectedLocation, selectedCluster>>

\* The backoff timer fires: i++, then the next fetch, or the throw after the
\* loop, which GET's catch answers with 500.
GeminiWake ==
  /\ gemini.pc = "waiting"
  /\ now >= gemini.wakeAt
  /\ gemini' = IF LoopGoesOn(gemini.i + 1)
               THEN [gemini EXCEPT !.pc = "fetching", !.i = @ + 1]
               ELSE [gemini EXCEPT !.pc = "done", !.i = @ + 1,
                                   !.outcome = "thrown", !.response = 500]
  /\ UNCHANGED <<limVars, taskVars, fetchVars, serverCache, rateLimitMap, inRoute, responses, regionApi,
                 admission, selectedLocation, selectedCluster>>

\* The clock while the backoff timer runs, half a second at a time.
GeminiTick ==
  /\ gemini.pc = "waiting"
  /\ now < gemini.wakeAt
  /\ now' = now + 500
  /\ UNCHANGED <<queue, processing, lastCallTime, loops, started, taskVars, fetchVars,
                 routeVars, sideVars>>

NextRetry ==
  \/ \E hasLat, hasLng \in BOOLEAN : GeminiGet(hasLat, hasLng)
  \/ \E status \in {200, 429, 500} : \E json \in BOOLEAN : \E jitter \in Jitters :
       GeminiProviderAnswer(status, json, jitter)
  \/ GeminiNetworkError
  \/ GeminiWake
  \/ GeminiTick

SpecRetry == InitLimiter /\ [][NextRetry]_vars

\* ---------------------------------------------------------------------------
\* reverseGeocodeWithCache under every answer of the network
\* ---------------------------------------------------------------------------
NextLookup ==
  \/ \E p \in Points : LookupWithin(RawCluster(1, p, 0), MaxLookups)
  \/ \E i \in 1 .. MaxLookups : \E data \in GeoData : GeocodeOk(i, data)
  \/ \E i \in 1 .. MaxLookups : \E answer \in FailedAnswers : GeocodeFail(i, answer)
  \/ \E i \in 1 .. MaxLookups : WakeLoop(i)
  \/ TickInterval

SpecLookup == InitLimiter /\ [][NextLookup]_vars

\* C10: points whose coordinates round to the same 4 decimals are one point
\* to both caches: neither cache holds two entries for such points, a call of
\* reverseGeocodeWithCache made while the client cache holds a result stored
\* for such a point returns that result, and a request that reaches the route
\* while its cache holds an unexpired result stored for such a point is
\* answered with that result without asking the provider.
C10_KeyEquivalence ==
  /\ \A e1, e2 \in geocodeCache : SameRounded(e1.point, e2.point) => e1 = e2
  /\ \A e1, e2 \in serverCache : SameRounded(e1.point, e2.point) => e1 = e2
  /\ \A k \in 1 .. Len(lookups) :
       lookups[k].near # {} =>
         lookups[k].status = "hit" /\ lookups[k].result \in lookups[k].near
  /\ \A q \in inRoute : q.near = {}
  /\ \A r \in responses : r.near # {} => r.status = 200 /\ r.body \in r.near

\* C11: whatever the network call comes to, reverseGeocodeWithCache settles
\* by returning: the result when the answer is OK with a JSON body, null on a
\* network error, a non-OK status or a malformed body; it never rejects.
C11_NeverThrows ==
  \A k \in 1 .. Len(lookups) :
    /\ lookups[k].status \in {"hit", "pending", "ok", "failed"}
    /\ lookups[k].answer \in FailedAnswers =>
          lookups[k].status = "failed" /\ lookups[k].result = NoData
    /\ lookups[k].answer = OkAnswer =>
          lookups[k].status = "ok" /\ lookups[k].result \in GeoData

\* Three lookups were answered with a network error, a non-OK status and a
\* malformed body, and each returned null.
C11_Witness ==
  \E a, b, c \in 1 .. Len(lookups) :
    /\ lookups[a].answer.kind = "network error" /\ lookups[a].status = "failed"
    /\ lookups[b].answer = Answer("status", 500) /\ lookups[b].status = "failed"
    /\ lookups[c].answer.kind = "malformed body" /\ lookups[c].status = "failed"

\* The retries fetchWithRetry has made: its provider calls after the first.
RetriesMade == IF gemini.statuses = <<>> THEN 0 ELSE Len(gemini.statuses) - 1

\* C12: a provider call answered with 429 is retried, three times at most,
\* and fetchWithRetry gives up only when the third retry is answered with 429
\* too; a response that is not a 429 ends the retrying at once and is the
\* response returned.
C12_ThrottleRetry ==
  /\ RetriesMade <= 3
  /\ \A k \in 1 .. Len(gemini.statuses) - 1 : gemini.statuses[k] = 429
  /\ gemini.outcome = "thrown" =>
        RetriesMade = 3 /\ gemini.statuses[Len(gemini.statuses)] = 429
  /\ (gemini.statuses # <<>> /\ gemini.statuses[Len(gemini.statuses)] \in {200, 500}) =>
        /\ gemini.pc = "done"
        /\ gemini.outcome = "returned"
        /\ gemini.returned = gemini.statuses[Len(gemini.statuses)]

\* The cluster query of fetch f is answered in this step.
ClusterQueryAnswered(f) ==
  /\ f \in 1 .. Len(fetches)
  /\ fetches[f].tab = "clusters"
  /\ fetches[f].status = "inflight"
  /\ fetches'[f].status \in {"geocoding", "done"}

\* A published cluster is the placeholder of raw cluster c.
IsPlaceholder(pub, c) ==
  /\ pub.job_type = c.job_type /\ pub.cluster_id = c.cluster_id /\ pub.gen = c.gen
  /\ pub.area_name = Pending
  /\ pub.neighborhoods = <<>> /\ pub.cities = <<>>
  /\ pub.counties = <<>> /\ pub.postal_codes = <<>>

\* C13: the step in which the cluster query of a fetch is answered publishes
\* one placeholder per raw cluster and clears the loading flag, while every
\* lookup of the fetch is still pending.
C13_PlaceholdersFirst ==
  [][\A f \in 1 .. MaxBatchFetches :
       ClusterQueryAnswered(f) =>
         /\ isLoading' = FALSE
         /\ Len(clusters') = Len(fetches'[f].raw)
         /\ \A i \in 1 .. Len(clusters') : IsPlaceholder(clusters'[i], fetches'[f].raw[i])]_vars

\* Every lookup made by fetch f has settled.
LookupsSettled(f) ==
  \A k \in 1 .. Len(lookups) :
    lookups[k].cluster.gen = f => lookups[k].status \in {"hit", "ok", "failed"}

\* C14: when the latest fetch is a cluster fetch that has published and every
\* one of its lookups has settled, with a result or with null, no published
\* cluster still has the pending area name.
C14_Convergence ==
  LET f == Len(fetches) IN
    (f > 0 /\ fetches[f].tab = "clusters" /\ fetches[f].status = "done" /\ LookupsSettled(f))
      => \A i \in 1 .. Len(clusters) : clusters[i].area_name # Pending

\* The result r of a lookup is in the facets of the published cluster pub.
Enriches(r, pub) ==
  /\ r.neighborhood # "" =>
        \E j \in 1 .. Len(pub.neighborhoods) : pub.neighborhoods[j] = r.neighborhood
  /\ r.city # "" =>
        \E j \in 1 .. Len(pub.cities) : pub.cities[j] = r.city

\* C15: in the step that settles the last lookup of a fetch, whichever of its
\* lookups failed, the fetch publishes one cluster per raw cluster, and every
\* lookup of it that succeeded is in the facets of its cluster.
C15_GeocodeFailureIsolation ==
  [][\A f \in 1 .. MaxBatchFetches :
       (f <= Len(fetches) /\ fetches[f].status = "geocoding"
          /\ AllSettled(lookups', f))
         => /\ fetches'[f].status = "done"
            /\ Len(clusters') = Len(fetches[f].raw)
            /\ \A i \in 1 .. Len(clusters') :
                 /\ clusters'[i].job_type = fetches[f].raw[i].job_type
                 /\ clusters'[i].cluster_id = fetches[f].raw[i].cluster_id
                 /\ clusters'[i].gen = f
            /\ \A k \in 1 .. Len(lookups') :
                 (lookups'[k].cluster.gen = f /\ lookups'[k].status = "ok") =>
                   \E i \in 1 .. Len(clusters') :
                     /\ clusters'[i].job_type = lookups'[k].cluster.job_type
                     /\ clusters'[i].cluster_id = lookups'[k].cluster.cluster_id
                     /\ Enriches(lookups'[k].result, clusters'[i])]_vars

\* One fetch published two clusters: a lookup of the first failed, another
\* lookup of the first and the lookup of the second succeeded and are in the
\* facets of their clusters.
C15_Witness ==
  LET f == Len(fetches) IN
    /\ f > 0 /\ fetches[f].status = "done" /\ Len(clusters) = 2
    /\ \E a, b, c \in 1 .. Len(lookups) :
         /\ lookups[a].cluster.gen = f /\ lookups[b].cluster.gen = f
         /\ lookups[c].cluster.gen = f
         /\ lookups[a].cluster.cluster_id = lookups[b].cluster.cluster_id
         /\ lookups[a].cluster.job_type = lookups[b].cluster.job_type
         /\ lookups[c].cluster.job_type # lookups[a].cluster.job_type
         /\ lookups[a].status = "failed"
         /\ lookups[b].status = "ok" /\ lookups[b].result.neighborhood # ""
         /\ lookups[c].status = "ok" /\ lookups[c].result.neighborhood # ""
         /\ clusters[1].neighborhoods = <<lookups[b].result.neighborhood>>
         /\ clusters[2].neighborhoods = <<lookups[c].result.neighborhood>>

\* C16: the area name of every published cluster is the one the naming
\* policy gives for its neighborhoods n and cities c: the first two
\* neighborhoods joined by ", ", " +k more" for the k > 0 others,
\* " (first city)" when a city is known; without neighborhoods all cities
\* joined by ", "; without either "Unknown Area".
C16_AreaNamingPolicy ==
  LET Policy(n, c) ==
        LET shown == IF Len(n) = 1 THEN <<n[1]>> ELSE <<n[1], ", ", n[2]>>
            k == Len(n) - 2
            more == IF k > 0 THEN <<" +", NumberText(k), " more">> ELSE <<>>
            city == IF c # <<>> THEN <<" (", c[1], ")">> ELSE <<>>
        IN IF n # <<>> THEN shown \o more \o city
           ELSE IF c # <<>>
                THEN [i \in 1 .. 2 * Len(c) - 1 |->
                        IF i % 2 = 1 THEN c[(i + 1) \div 2] ELSE ", "]
                ELSE <<"Unknown Area">>
  IN \A i \in 1 .. Len(clusters) :
       clusters[i].area_name = Policy(clusters[i].neighborhoods, clusters[i].cities)

\* A cluster of three neighborhoods in one city is published as
\* "Downtown, Midtown +1 more (Dallas)".
C16_Witness ==
  \E i \in 1 .. Len(clusters) :
    /\ clusters[i].neighborhoods = <<"Downtown", "Midtown", "Uptown">>
    /\ clusters[i].cities = <<"Dallas">>
    /\ clusters[i].area_name =
         <<"Downtown", ", ", "Midtown", " +", "1", " more", " (", "Dallas", ")">>

\* The calls of reverseGeocodeWithCache made for the published cluster c.
CallsFor(c) ==
  {k \in 1 .. Len(lookups) :
     /\ lookups[k].cluster.gen = c.gen
     /\ lookups[k].cluster.job_type = c.job_type
     /\ lookups[k].cluster.cluster_id = c.cluster_id}

\* C17: for every published cluster, min(10, length) points were geocoded if
\* its location_coords is non-empty, and otherwise exactly one, the centroid.
C17_RepresentativePoints ==
  \A i \in 1 .. Len(clusters) :
    LET c == clusters[i]
        n == Len(c.location_coords)
    IN Cardinality(CallsFor(c)) = IF n > 0 THEN (IF n < 10 THEN n ELSE 10) ELSE 1

\* C18: in every published cluster each facet list has no duplicate, holds
\* exactly the non-empty values of the results of the cluster's lookups, and
\* lists them in the order in which they were first seen among those results.
C18_FacetListsAreOrderedSets ==
  \A i \in 1 .. Len(clusters) :
    LET c == clusters[i]
        mine == {k \in 1 .. Len(lookups) :
                   /\ lookups[k].cluster.gen = c.gen
                   /\ lookups[k].cluster.job_type = c.job_type
                   /\ lookups[k].cluster.cluster_id = c.cluster_id
                   /\ lookups[k].status = "ok"}
        Seen(v, field) == {k \in mine : lookups[k].result[field] = v}
        FirstSeen(v, field) == CHOOSE k \in Seen(v, field) : \A m \in Seen(v, field) : k <= m
        IsOrderedSet(list, field) ==
          /\ \A a, b \in 1 .. Len(list) : a # b => list[a] # list[b]
          /\ \A a \in 1 .. Len(list) : list[a] # "" /\ Seen(list[a], field) # {}
          /\ \A k \in mine : lookups[k].result[field] # "" =>
                \E a \in 1 .. Len(list) : list[a] = lookups[k].result[field]
          /\ \A a, b \in 1 .. Len(list) :
                a < b => FirstSeen(list[a], field) < FirstSeen(list[b], field)
    IN /\ IsOrderedSet(c.neighborhoods, "neighborhood")
       /\ IsOrderedSet(c.cities, "city")
       /\ IsOrderedSet(c.counties, "county")
       /\ IsOrderedSet(c.postal_codes, "postal_code")

\* A published cluster whose three lookups returned the cities Dallas, Plano
\* and Dallas again lists <<"Dallas", "Plano">>.
C18_Witness ==
  \E i \in 1 .. Len(clusters) :
    /\ clusters[i].cities = <<"Dallas", "Plano">>
    /\ \E a, b, c \in 1 .. Len(lookups) :
         /\ a < b /\ b < c
         /\ \A k \in {a, b, c} :
              /\ lookups[k].status = "ok"
              /\ lookups[k].cluster.gen = clusters[i].gen
              /\ lookups[k].cluster.cluster_id = clusters[i].cluster_id
              /\ lookups[k].cluster.job_type = clusters[i].job_type
         /\ lookups[a].result.city = "Dallas"
         /\ lookups[b].result.city = "Plano"
         /\ lookups[c].result.city = "Dallas"

\* The values of the sequence list.
Values(list) == {list[j] : j \in 1 .. Len(list)}

\* Every facet of the published cluster `old` is kept by `new`.
FacetsGrow(old, new) ==
  /\ Values(old.neighborhoods) \subseteq Values(new.neighborhoods)
  /\ Values(old.cities) \subseteq Values(new.cities)
  /\ Values(old.counties) \subseteq Values(new.counties)
  /\ Values(old.postal_codes) \subseteq Values(new.postal_codes)
  /\ Cardinality(Values(old.neighborhoods)) <= Cardinality(Values(new.neighborhoods))

\* C19: in a step that is no trigger and no region response, so within one
\* fetch cycle, every published cluster keeps the facet values it had: its
\* facet sets only grow and its number of neighborhoods never decreases.
C19_FoldingMonotonicity ==
  [][(fetches' = fetches /\ Len(clusters') = Len(clusters)) =>
       \A i \in 1 .. Len(clusters) : FacetsGrow(clusters[i], clusters'[i])]_vars

\* The region queries in flight.
InFlight(fs) == {f \in 1 .. Len(fs) : fs[f].status = "inflight"}

\* C20: at most one region query is in flight, that of the fetch triggered
\* last; an aborted query stays aborted and nothing it would have published
\* (locations, clusters, lookups of its clusters) exists; and the loading flag
\* is cleared only in a step in which an in-flight query is answered.
C20_AbortOnTrigger ==
  /\ [](/\ Cardinality(InFlight(fetches)) <= 1
        /\ InFlight(fetches) \subseteq {abortControllerRef}
        /\ \A f \in 1 .. Len(fetches) :
             fetches[f].status = "aborted" =>
               /\ \A i \in 1 .. Len(clusters) : clusters[i].gen # f
               /\ \A i \in 1 .. Len(locations) : locations[i].gen # f
               /\ \A k \in 1 .. Len(lookups) : lookups[k].cluster.gen # f)
  /\ [][/\ \A f \in 1 .. Len(fetches) :
            fetches[f].status = "aborted" => fetches'[f].status = "aborted"
        /\ (isLoading /\ ~isLoading') =>
             \E f \in InFlight(fetches) : fetches'[f].status = "done"
        /\ Len(fetches') > Len(fetches) =>
             InFlight(fetches') = {Len(fetches')}]_vars

\* A trigger aborted the in-flight query of the first fetch, and the second
\* fetch published its clusters.
C20_Witness ==
  /\ Len(fetches) = 2
  /\ fetches[1].status = "aborted"
  /\ fetches[2].status = "done"
  /\ clusters # <<>>
  /\ \A i \in 1 .. Len(clusters) : clusters[i].gen = 2
  /\ ~isLoading

\* The cache key the route computes for the request of lookup t.
RouteKeyOf(t) ==
  RouteCacheKey(NumberToString(lookups[t].cluster.center_lat),
                NumberToString(lookups[t].cluster.center_lng))

\* The entries the route's cache holds under key.
RouteEntries(cache, key) == {e \in cache : e.key = key}

\* C21: a request that reaches the route is answered from the cache only with
\* an entry younger than CACHE_TTL; when the entry of its key has reached that
\* age the request goes to the provider, and the provider's successful answer
\* leaves one entry under the key, holding that answer and the current time.
C21_CacheExpiry ==
  [][/\ \A t \in 1 .. MaxCalls :
          (t <= Len(lookups) /\ lookups[t].status = "pending" /\ lookups'[t].status = "sent")
            => LET held == RouteEntries(serverCache, RouteKeyOf(t))
                   expired == \A e \in held : now - e.timestamp >= CACHE_TTL
               IN /\ expired => /\ \E q \in inRoute' \ inRoute : q.request.task = t
                                /\ responses' = responses
                  /\ ~expired => /\ inRoute' = inRoute
                                 /\ \E r \in responses' \ responses :
                                      /\ r.task = t /\ r.status = 200
                                      /\ \E e \in held : /\ r.body = e.data
                                                          /\ now - e.timestamp < CACHE_TTL
                  /\ serverCache' = serverCache
      /\ \A q \in inRoute \ inRoute' :
          (\E r \in responses' \ responses : r.status = 200) =>
            \E r \in responses' \ responses :
              RouteEntries(serverCache', RouteCacheKey(q.request.lat, q.request.lng))
                = {[key |-> RouteCacheKey(q.request.lat, q.request.lng), data |-> r.body,
                    timestamp |-> now,
                    point |-> Pt(ParseFloat(q.request.lat), ParseFloat(q.request.lng))]}]_vars

\* The entry of a key was stored, reached the age CACHE_TTL, a request for the
\* key went to the provider and its answer replaced the entry: the cache
\* holds an entry stored a lifetime after the first lookup returned.
C21_Witness ==
  \E a, b \in 1 .. Len(lookups) :
    /\ a # b
    /\ RouteKeyOf(a) = RouteKeyOf(b)
    /\ lookups[a].status = "ok"
    /\ lookups[b].status = "ok"
    /\ \E e \in serverCache :
         /\ e.key = RouteKeyOf(b)
         /\ e.timestamp >= StartTime + CACHE_TTL
         /\ e.data = lookups[b].result
         /\ e.data # lookups[a].result

Lacking(q) == \E i \in 1 .. Len(q) : q[i] \in {MissingParam, EmptyParam}

KeyOf(lks, t) == CacheKey(lks[t].cluster.center_lat, lks[t].cluster.center_lng)

\* C24: when a lookup has returned a result the cache holds an entry under
\* its key, and every call for that key made after the return is a cache hit
\* that returns what the cache holds.
C24_StoredBeforeReturned ==
  /\ [](\A a \in 1 .. Len(lookups) :
          lookups[a].status = "ok" => CacheHas(geocodeCache, KeyOf(lookups, a)))
  /\ [][\A a \in 1 .. Len(lookups) : \A b \in Len(lookups) + 1 .. Len(lookups') :
          (lookups[a].status = "ok" /\ KeyOf(lookups', b) = KeyOf(lookups, a))
            => /\ lookups'[b].status = "hit"
               /\ lookups'[b].result = CacheGet(geocodeCache, KeyOf(lookups, a))
               /\ queue' = queue /\ loops' = loops]_vars

\* A lookup returned a result, and a call made afterwards for another point
\* with the same key was a cache hit with that result.
C24_Witness ==
  \E a, b \in 1 .. Len(lookups) :
    /\ a < b
    /\ lookups[a].status = "ok"
    /\ lookups[b].status = "hit"
    /\ KeyOf(lookups, a) = KeyOf(lookups, b)
    /\ lookups[a].cluster.center_lat # lookups[b].cluster.center_lat
    /\ lookups[b].result = lookups[a].result
    /\ lookups[b].result \in GeoData

\* C25: the k-th wait of fetchWithRetry follows a 429, lasts at least
\* 1000 * 2^(k-1) and less than 1000 * 2^(k-1) + 1000 milliseconds, and is
\* followed by another attempt.
C25_BackoffDelays ==
  /\ \A k \in 1 .. Len(gemini.waits) :
       /\ gemini.statuses[k] = 429
       /\ gemini.waits[k] >= 1000 * 2 ^ (k - 1)
       /\ gemini.waits[k] < 1000 * 2 ^ (k - 1) + 1000
  /\ gemini.pc = "done" =>
       \A k \in 1 .. Len(gemini.waits) : k + 1 <= Len(gemini.statuses)

\* C26: when every attempt of fetchWithRetry was answered with 429 the route
\* answers 500, and reverseGeocode returns null on that answer; the route
\* never answers 429.
C26_ExhaustedRetriesDegrade ==
  /\ gemini.response # 429
  /\ (/\ gemini.pc = "done"
      /\ Len(gemini.statuses) = retries
      /\ \A k \in 1 .. Len(gemini.statuses) : gemini.statuses[k] = 429)
     => /\ gemini.outcome = "thrown"
        /\ gemini.response = 500
        /\ ReverseGeocode(Answer("status", gemini.response)) = "failed"

\* Three attempts were answered with 429 and the route has answered 500.
C26_Witness ==
  /\ gemini.pc = "done"
  /\ gemini.statuses = <<429, 429, 429>>
  /\ gemini.outcome = "thrown"
  /\ gemini.response = 500

\* C27: an entry of the client cache, which never expires, is never
\* overwritten: the cache keeps holding its data under its key.
C27_EntriesAreReadOnly ==
  [][\A e \in geocodeCache :
       \E e2 \in geocodeCache' : e2.key = e.key /\ e2.data = e.data]_vars

\* The lookups of fetch cycles before the current one.
Superseded == {t \in 1 .. Len(lookups) : lookups[t].cluster.gen < CurrentGen}

\* The tasks in the limiter's queue.
Queued(q) == {q[i] : i \in 1 .. Len(q)}

\* C28: a queued lookup leaves the queue only by being dispatched, so a
\* trigger removes none; lookups are dispatched in the order of their calls,
\* those of an earlier fetch ahead of those of a later one; and a superseded
\* lookup that succeeds still stores its result in the cache.
C28_SupersededWorkCompletes ==
  /\ [](\A i, j \in 1 .. Len(started) : i < j => started[i][1] < started[j][1])
  /\ [](\A i, j \in 1 .. Len(queue) :
          i < j => lookups[queue[i]].cluster.gen <= lookups[queue[j]].cluster.gen)
  /\ [][/\ \A t \in Queued(queue) :
            t \in Queued(queue') \/ \E k \in Len(started) + 1 .. Len(started') : started'[k][1] = t
        /\ Len(fetches') > Len(fetches) => queue' = queue /\ loops' = loops
        /\ \A t \in Superseded :
            (lookups[t].status = "pending" /\ lookups'[t].status = "ok") =>
              \E e \in geocodeCache' :
                e.key = KeyOf(lookups, t) /\ e.data = lookups'[t].result]_vars

\* A lookup of the first fetch is still queued after the second fetch was
\* triggered and has queued its own lookup behind it, while another lookup of
\* the first fetch is already running.
C28_Witness ==
  /\ CurrentGen = 2
  /\ \E i, j \in 1 .. Len(queue) :
       /\ i < j
       /\ lookups[queue[i]].cluster.gen = 1
       /\ lookups[queue[j]].cluster.gen = 2
  /\ \E t \in Executing(RL) : lookups[t].cluster.gen = 1

\* C30: a failed lookup is not cached. The step in which
\* reverseGeocodeWithCache returns null leaves the client cache as it was, and
\* every entry of the client cache is the result of a lookup that succeeded;
\* an answer of the route other than 200 leaves the route's cache as it was;
\* and a call for the key of a failed lookup, made while the cache has no
\* entry for the key, is handed to the limiter as a new lookup.
C30_FailuresAreNotCached ==
  /\ [](\A e \in geocodeCache :
          \E t \in 1 .. Len(lookups) :
            /\ lookups[t].status = "ok"
            /\ KeyOf(lookups, t) = e.key
            /\ lookups[t].result = e.data)
  /\ [][/\ (\E t \in 1 .. Len(lookups) :
             lookups[t].status # "failed" /\ lookups'[t].status = "failed")
           => geocodeCache' = geocodeCache
       /\ (\E r \in responses' : r \notin responses /\ r.status # 200)
           => serverCache' = serverCache
       /\ \A a \in 1 .. Len(lookups) : \A b \in Len(lookups) + 1 .. Len(lookups') :
            (/\ lookups[a].status = "failed"
             /\ KeyOf(lookups', b) = KeyOf(lookups, a)
             /\ ~CacheHas(geocodeCache, KeyOf(lookups, a)))
              => /\ lookups'[b].status = "pending"
                 /\ \/ \E k \in 1 .. Len(queue') : queue'[k] = b
                    \/ \E k \in Len(started) + 1 .. Len(started') : started'[k][1] = b]_vars

\* A lookup failed on the route's 500 and left neither cache with an entry
\* for its key; a later call for the same point went to the route again and
\* its result is the one cached.
C30_Witness ==
  \E a, b \in 1 .. Len(lookups) :
    /\ a < b
    /\ lookups[a].status = "failed"
    /\ lookups[a].answer = Answer("status", 500)
    /\ lookups[b].cluster = lookups[a].cluster
    /\ lookups[b].status = "ok"
    /\ lookups[b].answer = OkAnswer
    /\ \E e \in geocodeCache : e.key = KeyOf(lookups, b) /\ e.data = lookups[b].result
    /\ \E e \in serverCache : e.key = RouteKeyOf(b) /\ e.data = lookups[b].result

\* C31: once the fetch triggered last has ended, by publishing locations or
\* placeholders or by the failure of its region query, the loading flag is
\* false.
C31_LoadingReleased ==
  (Len(fetches) > 0 /\ fetches[Len(fetches)].status \in {"done", "error"})
    => ~isLoading

\* C32: while the region query of the fetch triggered last is in flight, the
\* loading flag is true, whatever becomes of the fetches triggered before it.
C32_LoadingTracksLatest ==
  (Len(fetches) > 0 /\ fetches[Len(fetches)].status = "inflight") => isLoading

\* C33: once a fetch has published, at most one of the published locations
\* and the published clusters is non-empty, and a geocode result arriving
\* late never makes an empty clusters list non-empty.
C33_LocationsXorClusters ==
  /\ [](Len(locations) = 0 \/ Len(clusters) = 0)
  /\ [][(Len(clusters) = 0 /\ Len(clusters') > 0)
          => \E f \in 1 .. Len(fetches) :
               /\ fetches[f].tab = "clusters"
               /\ fetches[f].status = "inflight"
               /\ fetches'[f].status = "done"]_vars

\* The positions of the published list that hold the identity key of raw
\* cluster c.
Holding(pub, c) ==
  {i \in 1 .. Len(pub) : pub[i].job_type = c.job_type /\ pub[i].cluster_id = c.cluster_id}

\* C34: the streamed update of a lookup that settles replaces the first
\* published cluster that has the lookup's (job_type, cluster_id) by the
\* enriched cluster and leaves the length, the order and every other element
\* of the published list as they were; when no published cluster has the key,
\* or the lookup returned null, the published list is unchanged.
C34_StreamedUpdateChangesOne ==
  [][\A t \in 1 .. Len(lookups) :
       (/\ Len(lookups') = Len(lookups)
        /\ lookups[t].status = "pending"
        /\ lookups'[t].status \in {"ok", "failed"})
         => IF lookups'[t].status = "failed" \/ Holding(clusters, lookups[t].cluster) = {}
            THEN clusters' = clusters
            ELSE /\ Len(clusters') = Len(clusters)
                 /\ \E i \in Holding(clusters, lookups[t].cluster) :
                      /\ \A j \in Holding(clusters, lookups[t].cluster) : i <= j
                      /\ clusters'[i] = EnhancedCluster(lookups[t].cluster, lookups'[t].result)
                      /\ \A j \in 1 .. Len(clusters) : j # i => clusters'[j] = clusters[j]]_vars

\* Two clusters are published; the lookup of the second has settled and its
\* element is enriched while the first is still the placeholder.
C34_Witness ==
  /\ Len(clusters) = 2
  /\ clusters[1].area_name = Pending
  /\ clusters[2].area_name # Pending
  /\ \E t \in 1 .. Len(lookups) :
       /\ lookups[t].status = "ok"
       /\ lookups[t].cluster.job_type = clusters[2].job_type
       /\ clusters[2] = EnhancedCluster(lookups[t].cluster, lookups[t].result)

\* The admissions a client key has counted in its window, if it has one.
WindowsOf(key) == {w \in admission.windows : w.key = key}

\* C35: per client key the geocode route admits at most
\* MAX_REQUESTS_PER_WINDOW requests from the opening of a window to its reset
\* time, RATE_LIMIT_WINDOW later; a further request made up to the reset time
\* is answered 429; the first request after the reset time is admitted and
\* opens a window whose record has count 1.
C35_PerClientLimit ==
  /\ [](\A w \in admission.windows : w.admitted <= MAX_REQUESTS_PER_WINDOW)
  /\ [][admission' # admission =>
          \A key \in {admission'.last.key} : \A t \in {admission'.last.at} :
            /\ (\E w \in WindowsOf(key) :
                  /\ t <= w.opened + RATE_LIMIT_WINDOW
                  /\ w.admitted >= MAX_REQUESTS_PER_WINDOW)
                => admission'.last.status = 429
            /\ (\A w \in WindowsOf(key) : t > w.opened + RATE_LIMIT_WINDOW)
                => /\ admission'.last.status # 429
                   /\ \E rec \in rateLimitMap' :
                        /\ rec.key = key
                        /\ rec.count = 1
                        /\ rec.resetTime = t + RATE_LIMIT_WINDOW
                   /\ \A rec \in rateLimitMap' : rec.key = key => rec.count = 1]_vars

\* The pressing client has had its 50 admissions and was refused at the very
\* reset time of its window, while the client without headers has a window of
\* its own.
C35_Witness ==
  /\ \E w \in WindowsOf(PressingKey) :
       /\ w.admitted = MAX_REQUESTS_PER_WINDOW
       /\ admission.last = [key |-> PressingKey, at |-> w.opened + RATE_LIMIT_WINDOW,
                            status |-> 429, body |-> NoData]
  /\ \E w \in WindowsOf("unknown") : w.admitted = 1

\* The record checkRateLimit keeps for a client key, as a set.
RecordsOf(map, key) == {rec \in map : rec.key = key}

\* C36: a request answered 429 changes nothing: the route's cache, the
\* provider calls in flight and the client's record are as before, and the
\* answer carries no cached address; every other request, also one answered
\* from the cache, takes one unit of its client's window: the count of the
\* record goes up by one, or a new record starts at one.
C36_RefusalHasNoEffect ==
  [][admission' # admission =>
       \A key \in {admission'.last.key} :
         IF admission'.last.status = 429
         THEN /\ serverCache' = serverCache
              /\ inRoute' = inRoute
              /\ rateLimitMap' = rateLimitMap
              /\ admission'.last.body = NoData
         ELSE /\ \A other \in rateLimitMap' : other.key # key => other \in rateLimitMap
              /\ \E rec2 \in RecordsOf(rateLimitMap', key) :
                   \/ /\ rec2.count = 1
                      /\ rec2.resetTime = now + RATE_LIMIT_WINDOW
                      /\ \A rec \in RecordsOf(rateLimitMap, key) : now > rec.resetTime
                   \/ \E rec \in RecordsOf(rateLimitMap, key) :
                        /\ rec2.count = rec.count + 1
                        /\ rec2.resetTime = rec.resetTime]_vars

\* The pressing client was refused while the route's cache holds an unexpired
\* address for the very point it asked for and no provider call is in flight;
\* its record stands at the 50 requests admitted before.
C36_Witness ==
  /\ admission.last.key = PressingKey
  /\ admission.last.status = 429
  /\ inRoute = {}
  /\ \E e \in serverCache :
       /\ e.key = RouteCacheKey(NumberToString(LimitPoint.lat), NumberToString(LimitPoint.lng))
       /\ now - e.timestamp < CACHE_TTL
  /\ \E rec \in RecordsOf(rateLimitMap, PressingKey) :
       /\ rec.count = MAX_REQUESTS_PER_WINDOW
       /\ \E w \in WindowsOf(PressingKey) : w.admitted = rec.count

\* C37: the cleanup of the fetch effect, run when the tab or the filter
\* changes, aborts the region query in flight: no query started for a tab
\* other than the current one is in flight, and none publishes or goes on to
\* geocode.
C37_Teardown ==
  /\ [](\A f \in 1 .. Len(fetches) :
          fetches[f].status = "inflight" => fetches[f].tab = activeTab)
  /\ [][\A f \in 1 .. Len(fetches) :
          (fetches[f].tab # activeTab /\ fetches'[f].status # fetches[f].status)
            => fetches'[f].status \notin {"done", "geocoding"}]_vars

\* C38: at most one of selectedLocation and selectedCluster is set; a click
\* on a location sets it and clears the selected cluster, a click on a
\* cluster sets it and clears the selected location.
C38_SelectionIsExclusive ==
  /\ [](selectedLocation = <<>> \/ selectedCluster = <<>>)
  /\ [][/\ (selectedLocation' # selectedLocation /\ selectedLocation' # <<>>)
            => selectedCluster' = <<>>
       /\ (selectedCluster' # selectedCluster /\ selectedCluster' # <<>>)
            => selectedLocation' = <<>>]_vars

\* A location is selected on the locations tab after a clusters fetch had
\* published an enriched cluster and the tab was changed.
C38_Witness ==
  /\ selectedLocation # <<>>
  /\ selectedCluster = <<>>
  /\ activeTab = "locations"
  /\ \E f \in 1 .. Len(fetches) : fetches[f].tab = "clusters" /\ fetches[f].status = "done"

====
